---------------------------- MODULE Spec2Model ----------------------------
(***************************************************************************)
(* Filename classification of the exam document converter.                *)
(*                                                                         *)
(* Two classifiers live in the repository and both are modelled:           *)
(*   - WasmService.analyzeFilename   (src/src/services/wasmService.ts)     *)
(*   - DocumentAnalyzer.analyze_filename, the Python analyser embedded in  *)
(*     src/public/wasm-loader.js                                           *)
(*                                                                         *)
(* A text is a sequence of one-character strings, so that substring        *)
(* search, case folding and the split at the last '.' are computed the     *)
(* way the code computes them.  Confidence is counted in tenths (0.5 is    *)
(* 5); every sum the code forms is a multiple of 0.1 below 1.0 or 1.0.     *)
(***************************************************************************)
EXTENDS Integers, Sequences, FiniteSets, TLC

VARIABLES
    filename,     \* the file name handed to the classifiers (File.name)
    tsAnalysis,   \* what analyzeFilename computed for it, or NotAnalysed
    pyAnalysis,   \* what analyze_filename computed for it, or NotAnalysed
    build,        \* the revision of the service that is deployed
    initialized,  \* WasmService.initialized
    call,         \* the last call of a method of the service and its outcome
    wasmLoaded,   \* App: the state wasmLoaded
    wasmError,    \* App: the state wasmError
    selectedExam, \* App: the state selectedExam
    files,        \* App: the state files, a list of FileItems
    isConverting, \* App: the state isConverting
    run           \* the call of handleConvert in progress, or the last one

classifierVars == <<filename, tsAnalysis, pyAnalysis>>

appVars == <<wasmLoaded, wasmError, selectedExam, files, isConverting, run>>

vars == <<filename, tsAnalysis, pyAnalysis, build, initialized, call,
          wasmLoaded, wasmError, selectedExam, files, isConverting, run>>

-----------------------------------------------------------------------------
(* Bounds of the model *)

\* a generated file name is the concatenation of at most MaxTokens words
MaxTokens == 3

-----------------------------------------------------------------------------
(* Texts *)

Dot == "."

\* the two regex atoms that are not literal characters
WS == "\\s*"
OD == "\\.?"

UpperCase ==
    {"A","B","C","D","E","F","G","H","I","J","K","L","M",
     "N","O","P","Q","R","S","T","U","V","W","X","Y","Z"}

LowerOf ==
    ("A" :> "a") @@ ("B" :> "b") @@ ("C" :> "c") @@ ("D" :> "d") @@
    ("E" :> "e") @@ ("F" :> "f") @@ ("G" :> "g") @@ ("H" :> "h") @@
    ("I" :> "i") @@ ("J" :> "j") @@ ("K" :> "k") @@ ("L" :> "l") @@
    ("M" :> "m") @@ ("N" :> "n") @@ ("O" :> "o") @@ ("P" :> "p") @@
    ("Q" :> "q") @@ ("R" :> "r") @@ ("S" :> "s") @@ ("T" :> "t") @@
    ("U" :> "u") @@ ("V" :> "v") @@ ("W" :> "w") @@ ("X" :> "x") @@
    ("Y" :> "y") @@ ("Z" :> "z")

\* case folding of one character (String.prototype.toLowerCase, str.lower,
\* and the comparison made under the regex flag i / re.IGNORECASE)
FoldChar(c) == IF c \in UpperCase THEN LowerOf[c] ELSE c

toLowerCase(text) == [i \in 1..Len(text) |-> FoldChar(text[i])]

\* \s of the regex engines, on the characters the model uses
IsSpace(c) == c \in {" ", "\t"}

includes(text, c) == \E i \in 1..Len(text) : text[i] = c

\* String.prototype.lastIndexOf, 1-based; 0 when the character is absent
lastIndexOf(text, c) ==
    IF includes(text, c)
    THEN CHOOSE i \in 1..Len(text) :
            /\ text[i] = c
            /\ \A j \in (i+1)..Len(text) : text[j] # c
    ELSE 0

\* String.prototype.substring(from, to) with 0-based from and exclusive to
substring(text, from, to) == SubSeq(text, from + 1, to)

-----------------------------------------------------------------------------
(* Regular expressions of the rule tables.                                 *)
(* A pattern is a set of alternatives (the | of the regex); an alternative *)
(* is a sequence of atoms: a literal character, WS (any run of white      *)
(* space, possibly empty) or OD (an optional dot).                         *)

RECURSIVE MatchHere(_, _, _, _)
\* atoms k.. of the alternative match the text from position i on
MatchHere(alt, k, text, i) ==
    IF k > Len(alt) THEN TRUE
    ELSE IF alt[k] = WS
    THEN \/ MatchHere(alt, k + 1, text, i)
         \/ /\ i <= Len(text)
            /\ IsSpace(text[i])
            /\ MatchHere(alt, k, text, i + 1)
    ELSE IF alt[k] = OD
    THEN \/ MatchHere(alt, k + 1, text, i)
         \/ /\ i <= Len(text)
            /\ text[i] = Dot
            /\ MatchHere(alt, k + 1, text, i + 1)
    ELSE /\ i <= Len(text)
         /\ FoldChar(text[i]) = alt[k]
         /\ MatchHere(alt, k + 1, text, i + 1)

\* a bug: the pattern is matched at the start of the text only (re.match
\* in place of re.search, or a pattern anchored with ^)
testAtStart(pattern, text) ==
    \E alt \in pattern : MatchHere(alt, 1, text, 1)

\* RegExp.prototype.test / re.search with the ignore-case flag: the pattern
\* matches somewhere in the text
test(pattern, text) ==
    \E alt \in pattern : \E i \in 1..(Len(text) + 1) : MatchHere(alt, 1, text, i)

\* the patterns of one category, in declaration order
MarksheetPatterns ==
    << {<<"m","a","r","k","s","h","e","e","t">>, <<"m","a","r","k",WS,"s","h","e","e","t">>},
       {<<"g","r","a","d","e",WS,"r","e","p","o","r","t">>},
       {<<"a","c","a","d","e","m","i","c",WS,"r","e","c","o","r","d">>},
       {<<"t","r","a","n","s","c","r","i","p","t">>},
       {<<"r","e","s","u","l","t">>} >>

CertificatePatterns ==
    << {<<"c","e","r","t","i","f","i","c","a","t","e">>}, {<<"d","i","p","l","o","m","a">>}, {<<"d","e","g","r","e","e">>}, {<<"q","u","a","l","i","f","i","c","a","t","i","o","n">>} >>

PhotoPatterns ==
    << {<<"p","h","o","t","o">>}, {<<"p","h","o","t","o","g","r","a","p","h">>}, {<<"i","m","a","g","e">>}, {<<"p","i","c","t","u","r","e">>},
       {<<"p","a","s","s","p","o","r","t",WS,"s","i","z","e">>} >>

SignaturePatterns ==
    << {<<"s","i","g","n","a","t","u","r","e">>}, {<<"s","i","g","n">>}, {<<"a","u","t","o","g","r","a","p","h">>} >>

IdentityPatterns ==
    << {<<"a","a","d","h","a","r">>, <<"a","a","d","h","a","a","r">>},
       {<<"p","a","n",WS,"c","a","r","d">>},
       {<<"v","o","t","e","r",WS,"i","d">>},
       {<<"p","a","s","s","p","o","r","t">>},
       {<<"d","r","i","v","i","n","g",WS,"l","i","c","e","n","s","e">>},
       {<<"i","d","e","n","t","i","t","y",WS,"p","r","o","o","f">>} >>

CategoryPatterns ==
    << {<<"c","a","s","t","e",WS,"c","e","r","t","i","f","i","c","a","t","e">>},
       {<<"c","a","t","e","g","o","r","y",WS,"c","e","r","t","i","f","i","c","a","t","e">>},
       {<<"r","e","s","e","r","v","a","t","i","o","n",WS,"c","e","r","t","i","f","i","c","a","t","e">>},
       {<<"o","b","c">>, <<"s","c">>, <<"s","t">>, <<"e","w","s">>},
       {<<"i","n","c","o","m","e",WS,"c","e","r","t","i","f","i","c","a","t","e">>} >>

TenthPatterns ==
    << {<<"1","0","t","h">>, <<"t","e","n","t","h">>, <<"c","l","a","s","s",WS,"1","0">>, <<"x",WS,"c","l","a","s","s">>, <<"s","s","l","c">>} >>

TwelfthPatterns ==
    << {<<"1","2","t","h">>, <<"t","w","e","l","f","t","h">>, <<"c","l","a","s","s",WS,"1","2">>, <<"x","i","i",WS,"c","l","a","s","s">>, <<"h","s","c">>,
        <<"i","n","t","e","r","m","e","d","i","a","t","e">>} >>

GraduationPatterns ==
    << {<<"g","r","a","d","u","a","t","i","o","n">>, <<"b","a","c","h","e","l","o","r">>, <<"b",OD,"t","e","c","h">>, <<"b",OD,"s","c">>, <<"b",OD,"c","o","m">>,
        <<"b",OD,"a">>, <<"d","e","g","r","e","e">>} >>

PostGraduationPatterns ==
    << {<<"p","o","s","t",WS,"g","r","a","d","u","a","t","i","o","n">>, <<"m","a","s","t","e","r">>, <<"m",OD,"t","e","c","h">>, <<"m",OD,"s","c">>,
        <<"m",OD,"c","o","m">>, <<"m",OD,"a">>, <<"p","h","d">>} >>

\* Object.entries(documentPatterns): the categories in declaration order
documentPatterns ==
    << [type |-> "marksheet",   patterns |-> MarksheetPatterns],
       [type |-> "certificate", patterns |-> CertificatePatterns],
       [type |-> "photo",       patterns |-> PhotoPatterns],
       [type |-> "signature",   patterns |-> SignaturePatterns],
       [type |-> "identity",    patterns |-> IdentityPatterns],
       [type |-> "category",    patterns |-> CategoryPatterns] >>

\* a bug: the 12th patterns declared before the 10th patterns
classPatternsTwelfthFirst ==
    << [type |-> "12th",            patterns |-> TwelfthPatterns],
       [type |-> "10th",            patterns |-> TenthPatterns],
       [type |-> "graduation",      patterns |-> GraduationPatterns],
       [type |-> "post_graduation", patterns |-> PostGraduationPatterns] >>

\* Object.entries(classPatterns)
classPatterns ==
    << [type |-> "10th",            patterns |-> TenthPatterns],
       [type |-> "12th",            patterns |-> TwelfthPatterns],
       [type |-> "graduation",      patterns |-> GraduationPatterns],
       [type |-> "post_graduation", patterns |-> PostGraduationPatterns] >>

\* DocumentAnalyzer.document_patterns and class_patterns (dict order)
document_patterns == documentPatterns

class_patterns == classPatterns

-----------------------------------------------------------------------------
(* WasmService.analyzeFilename (wasmService.ts)                            *)

UNKNOWN == "unknown"

RECURSIVE detectLoopNoBreak(_, _, _)
\* a bug: the outer loop is not left at the first hit, so the last matching
\* category overwrites the earlier ones
detectLoopNoBreak(table, n, text) ==
    IF n > Len(table) THEN UNKNOWN
    ELSE LET later == detectLoopNoBreak(table, n + 1, text)
         IN  IF later # UNKNOWN THEN later
             ELSE IF \E p \in 1..Len(table[n].patterns) :
                        test(table[n].patterns[p], text)
                  THEN table[n].type
                  ELSE UNKNOWN

RECURSIVE detectLoop(_, _, _)
\* for (const [type, patterns] of Object.entries(table)) { for (pattern of
\* patterns) if (pattern.test(text)) { found = type; break; }
\* if (found !== 'unknown') break; }   -- run from category n on
detectLoop(table, n, text) ==
    IF n > Len(table) THEN UNKNOWN
    ELSE IF \E p \in 1..Len(table[n].patterns) : test(table[n].patterns[p], text)
         THEN table[n].type
         ELSE detectLoop(table, n + 1, text)

levelMap ==
    [level \in {"10th", "12th", "graduation", "post_graduation"} |->
        CASE level = "10th"            -> <<"1","0","t","h">>
          [] level = "12th"            -> <<"1","2","t","h">>
          [] level = "graduation"      -> <<"G","r","a","d","u","a","t","i","o","n">>
          [] level = "post_graduation" -> <<"P","o","s","t","G","r","a","d","u","a","t","i","o","n">>]

typeMap ==
    [type \in {"marksheet", "certificate", "photo", "signature", "identity",
               "category"} |->
        CASE type = "marksheet"   -> <<"M","a","r","k","s","h","e","e","t">>
          [] type = "certificate" -> <<"C","e","r","t","i","f","i","c","a","t","e">>
          [] type = "photo"       -> <<"P","h","o","t","o">>
          [] type = "signature"   -> <<"S","i","g","n","a","t","u","r","e">>
          [] type = "identity"    -> <<"I","d","e","n","t","i","t","y","P","r","o","o","f">>
          [] type = "category"    -> <<"C","a","t","e","g","o","r","y","C","e","r","t","i","f","i","c","a","t","e">>]

RECURSIVE join(_)
\* Array.prototype.join('') / ''.join(parts)
join(parts) == IF parts = <<>> THEN <<>> ELSE Head(parts) \o join(Tail(parts))

\* a bug: the document type label pushed before the level label
namePartsTypeFirst(educationLevel, documentType) ==
    LET withType  == IF documentType # UNKNOWN
                     THEN <<typeMap[documentType]>> ELSE <<>>
        withLevel == IF educationLevel # UNKNOWN
                     THEN Append(withType, levelMap[educationLevel]) ELSE withType
    IN  IF Len(withLevel) = 0 THEN <<<<"D","o","c","u","m","e","n","t">>>> ELSE withLevel

\* a bug: the 'Document' fallback for an empty list of parts is missing
namePartsNoFallback(educationLevel, documentType) ==
    LET withLevel == IF educationLevel # UNKNOWN
                     THEN <<levelMap[educationLevel]>> ELSE <<>>
    IN  IF documentType # UNKNOWN
        THEN Append(withLevel, typeMap[documentType]) ELSE withLevel

\* const nameParts = []; push level label; push type label; push 'Document'
nameParts(educationLevel, documentType) ==
    LET withLevel == IF educationLevel # UNKNOWN
                     THEN <<levelMap[educationLevel]>> ELSE <<>>
        withType  == IF documentType # UNKNOWN
                     THEN Append(withLevel, typeMap[documentType]) ELSE withLevel
    IN  IF Len(withType) = 0 THEN <<<<"D","o","c","u","m","e","n","t">>>> ELSE withType

\* confidence of analyzeFilename, in tenths
TsBaseConfidence == 5
TsTypeIncrement == 3
TsLevelIncrement == 2
One == 10

Min(a, b) == IF a < b THEN a ELSE b

\* a bug: the two increments exchanged
tsConfidenceSwapped(documentType, educationLevel) ==
    LET c0 == TsBaseConfidence
        c1 == IF documentType # UNKNOWN THEN c0 + TsLevelIncrement ELSE c0
        c2 == IF educationLevel # UNKNOWN THEN c1 + TsTypeIncrement ELSE c1
    IN  Min(c2, One)

tsConfidence(documentType, educationLevel) ==
    LET c0 == TsBaseConfidence
        c1 == IF documentType # UNKNOWN THEN c0 + TsTypeIncrement ELSE c0
        c2 == IF educationLevel # UNKNOWN THEN c1 + TsLevelIncrement ELSE c1
    IN  Min(c2, One)

\* the text the patterns of analyzeFilename are tested against
tsTestedText(name) == toLowerCase(name)

\* filename.includes('.') ? filename.substring(0, filename.lastIndexOf('.'))
\*                        : filename           (computed, never read)
nameWithoutExt(name) ==
    IF includes(name, Dot)
    THEN substring(name, 0, lastIndexOf(name, Dot) - 1)
    ELSE name

\* a bug: the extension cut out of filenameLower instead of filename
fileExtLowered(name) ==
    IF includes(name, Dot)
    THEN substring(toLowerCase(name), lastIndexOf(name, Dot), Len(name))
    ELSE <<>>

\* filename.includes('.') ? filename.substring(filename.lastIndexOf('.') + 1) : ''
fileExt(name) ==
    IF includes(name, Dot)
    THEN substring(name, lastIndexOf(name, Dot), Len(name))
    ELSE <<>>

\* a bug: the name of the file is suggested again, whatever was recognised
analyzeFilenameKeepName(name) ==
    LET filenameLower  == tsTestedText(name)
        documentType   == detectLoop(documentPatterns, 1, filenameLower)
        educationLevel == detectLoop(classPatterns, 1, filenameLower)
    IN  [ suggestedName  |-> name,
          confidence     |-> tsConfidence(documentType, educationLevel),
          documentType   |-> documentType,
          educationLevel |-> educationLevel ]

analyzeFilename(name) ==
    LET filenameLower  == tsTestedText(name)
        documentType   == detectLoop(documentPatterns, 1, filenameLower)
        educationLevel == detectLoop(classPatterns, 1, filenameLower)
        suggestedName  == join(nameParts(educationLevel, documentType))
                          \o (IF fileExt(name) # <<>>
                              THEN <<Dot>> \o fileExt(name) ELSE <<>>)
    IN  [ suggestedName  |-> suggestedName,
          confidence     |-> tsConfidence(documentType, educationLevel),
          documentType   |-> documentType,
          educationLevel |-> educationLevel ]  \* the local of line 118

-----------------------------------------------------------------------------
(* DocumentAnalyzer (the Python analyser of wasm-loader.js)                *)

RECURSIVE detect(_, _, _)
\* _detect_document_type / _detect_education_level: return the first
\* category, in dict order, one of whose patterns is found in the text
detect(table, n, text) ==
    IF n > Len(table) THEN UNKNOWN
    ELSE IF \E p \in 1..Len(table[n].patterns) : test(table[n].patterns[p], text)
         THEN table[n].type
         ELSE detect(table, n + 1, text)

detect_document_type(text) == detect(document_patterns, 1, text)

detect_education_level(text) == detect(class_patterns, 1, text)

level_map == levelMap

type_map == typeMap

generate_suggested_name(doc_type, edu_level, file_ext) ==
    LET withLevel == IF edu_level # UNKNOWN
                     THEN <<level_map[edu_level]>> ELSE <<>>
        withType  == IF doc_type # UNKNOWN
                     THEN Append(withLevel, type_map[doc_type]) ELSE withLevel
        name_parts == IF withType = <<>> THEN <<<<"D","o","c","u","m","e","n","t">>>> ELSE withType
        suggested_name == join(name_parts)
    IN  IF file_ext # <<>> THEN suggested_name \o <<Dot>> \o file_ext
        ELSE suggested_name

PyTypeIncrement == 5
PyLevelIncrement == 3
PyMatchBonus == 2

\* number of patterns, over all categories of both tables, found in the text
total_matches(text) ==
    Cardinality({ <<t, n, p>> \in {"doc", "class"} \X (1..6) \X (1..6) :
        LET table == IF t = "doc" THEN document_patterns ELSE class_patterns
        IN  /\ n <= Len(table)
            /\ p <= Len(table[n].patterns)
            /\ test(table[n].patterns[p], text) })

\* a bug: the bonus added once per matching pattern (the += placed inside
\* the counting loop) and the sum returned without min(confidence, 1.0)
calculate_confidence_per_match(text, doc_type, edu_level) ==
    LET c0 == 0
        c1 == IF doc_type # UNKNOWN THEN c0 + PyTypeIncrement ELSE c0
        c2 == IF edu_level # UNKNOWN THEN c1 + PyLevelIncrement ELSE c1
    IN  c2 + PyMatchBonus * total_matches(text)

\* a bug: the bonus granted for every match after the first instead of once
calculate_confidence_bonus_per_extra_match(text, doc_type, edu_level) ==
    LET c0 == 0
        c1 == IF doc_type # UNKNOWN THEN c0 + PyTypeIncrement ELSE c0
        c2 == IF edu_level # UNKNOWN THEN c1 + PyLevelIncrement ELSE c1
        c3 == IF total_matches(text) > 1
              THEN c2 + PyMatchBonus * (total_matches(text) - 1) ELSE c2
    IN  Min(c3, One)

calculate_confidence(text, doc_type, edu_level) ==
    LET c0 == 0
        c1 == IF doc_type # UNKNOWN THEN c0 + PyTypeIncrement ELSE c0
        c2 == IF edu_level # UNKNOWN THEN c1 + PyLevelIncrement ELSE c1
        c3 == IF total_matches(text) > 1 THEN c2 + PyMatchBonus ELSE c2
    IN  Min(c3, One)

\* filename_lower.rsplit('.', 1)[0] if '.' in filename_lower else filename_lower
name_without_ext(name) ==
    LET filename_lower == toLowerCase(name)
    IN  IF includes(filename_lower, Dot)
        THEN SubSeq(filename_lower, 1, lastIndexOf(filename_lower, Dot) - 1)
        ELSE filename_lower

\* filename.rsplit('.', 1)[1] if '.' in filename else ''
file_ext(name) ==
    IF includes(name, Dot)
    THEN SubSeq(name, lastIndexOf(name, Dot) + 1, Len(name))
    ELSE <<>>

analyze_filename(name) ==
    LET stem           == name_without_ext(name)
        document_type   == detect_document_type(stem)
        education_level == detect_education_level(stem)
    IN  [ original_name   |-> name,
          suggested_name  |-> generate_suggested_name(document_type,
                                 education_level, file_ext(name)),
          document_type   |-> document_type,
          education_level |-> education_level,
          confidence      |-> calculate_confidence(stem, document_type,
                                 education_level) ]

-----------------------------------------------------------------------------
(* Values of the document service and of the application                   *)

\* the value of a property that is absent, and the JSON null
undefined == <<"undefined">>

null == <<"null">>

Quote == "\""

UpperOf(c) ==
    IF \E u \in UpperCase : LowerOf[u] = c
    THEN CHOOSE u \in UpperCase : LowerOf[u] = c
    ELSE c

\* String.prototype.toUpperCase
toUpperCase(text) == [i \in 1..Len(text) |-> UpperOf(text[i])]

\* String.prototype.startsWith
startsWith(text, prefix) ==
    /\ Len(text) >= Len(prefix)
    /\ SubSeq(text, 1, Len(prefix)) = prefix

\* String.prototype.indexOf for one character, 1-based; 0 when absent
indexOf(text, c) ==
    IF includes(text, c)
    THEN CHOOSE i \in 1..Len(text) :
            /\ text[i] = c
            /\ \A j \in 1..(i-1) : text[j] # c
    ELSE 0

\* the outcome of an async method: the promise it returns is fulfilled with
\* a value or rejected with the message of the error thrown
Fulfilled(value) == [settled |-> "fulfilled", value |-> value]

Rejected(message) == [settled |-> "rejected", reason |-> message]

\* a File: its name, size in bytes and MIME type (the inputs of section 6 of
\* the specification), the bytes it holds, and whether the browser can still
\* read them (File.arrayBuffer() rejects and an <img> fails to load when the
\* file behind the handle has been moved or deleted since it was selected)
Files ==
    { [ name |-> <<"s","c","a","n","\"","1","0","t","h",".","p","d","f">>, size |-> 200 * 1024,
        type |-> <<"a","p","p","l","i","c","a","t","i","o","n","/","p","d","f">>, bytes |-> <<"A">>, readable |-> TRUE ],
      [ name |-> <<"m","y",".","p","h","o","t","o",".","j","p","g">>, size |-> 4 * 1024 * 1024,
        type |-> <<"i","m","a","g","e","/","j","p","e","g">>, bytes |-> <<"B">>, readable |-> TRUE ],
      [ name |-> <<"n","o","t","e","s">>, size |-> 6 * 1024 * 1024,
        type |-> <<"a","p","p","l","i","c","a","t","i","o","n","/","p","d","f">>, bytes |-> <<"C">>, readable |-> TRUE ],
      [ name |-> <<".","p","d","f">>, size |-> 100 * 1024,
        type |-> <<"a","p","p","l","i","c","a","t","i","o","n","/","p","d","f">>, bytes |-> <<"D">>, readable |-> TRUE ],
      [ name |-> <<"1","0","t","h","_","m","a","r","k","s","h","e","e","t",".","p","d","f">>, size |-> 300 * 1024,
        type |-> <<"a","p","p","l","i","c","a","t","i","o","n","/","p","d","f">>, bytes |-> <<"E">>, readable |-> FALSE ] }

\* the lists of at most n files
FileLists(n) == UNION { [1..k -> Files] : k \in 0..n }

\* the revisions of the service present in the repository
Live == "wasmService.ts"

Part004 == "part_004"

Part005 == "part_005"

-----------------------------------------------------------------------------
(* Exam configurations                                                     *)

examConfigs ==
    (<<"n","e","e","t">> :>
        [ formats  |-> << <<"P","D","F">>, <<"J","P","E","G">>, <<"J","P","G">> >>,
          maxSizes |-> (<<"P","D","F">> :> 2 * 1024 * 1024) @@ (<<"J","P","E","G">> :> 500 * 1024)
                       @@ (<<"J","P","G">> :> 500 * 1024) ]) @@
    (<<"j","e","e">> :>
        [ formats  |-> << <<"P","D","F">>, <<"J","P","E","G">>, <<"P","N","G">> >>,
          maxSizes |-> (<<"P","D","F">> :> 1 * 1024 * 1024) @@ (<<"J","P","E","G">> :> 300 * 1024)
                       @@ (<<"P","N","G">> :> 300 * 1024) ]) @@
    (<<"u","p","s","c">> :>
        [ formats  |-> << <<"P","D","F">>, <<"J","P","E","G">>, <<"J","P","G">>, <<"P","N","G">> >>,
          maxSizes |-> (<<"P","D","F">> :> 3 * 1024 * 1024) @@ (<<"J","P","E","G">> :> 1 * 1024 * 1024)
                       @@ (<<"J","P","G">> :> 1 * 1024 * 1024)
                       @@ (<<"P","N","G">> :> 1 * 1024 * 1024) ]) @@
    (<<"c","a","t">> :>
        [ formats  |-> << <<"P","D","F">>, <<"J","P","E","G">> >>,
          maxSizes |-> (<<"P","D","F">> :> 1536 * 1024) @@ (<<"J","P","E","G">> :> 400 * 1024) ]) @@
    (<<"g","a","t","e">> :>
        [ formats  |-> << <<"P","D","F">>, <<"J","P","E","G">>, <<"P","N","G">> >>,
          maxSizes |-> (<<"P","D","F">> :> 2 * 1024 * 1024) @@ (<<"J","P","E","G">> :> 500 * 1024)
                       @@ (<<"P","N","G">> :> 500 * 1024) ])

-----------------------------------------------------------------------------
(* pythonModule.analyzeDocument (wasm-loader.js), used by part_004/part_005 *)

\* json.dumps: the JSON text of a value; an object is a record without the
\* field json
json_dumps(value) == [json |-> value]

\* JSON.parse: the value of a JSON text; an argument that is no JSON text is
\* turned into the string "[object Object]", which is a SyntaxError
JSON_parse(text) ==
    IF "json" \in DOMAIN text
    THEN [threw |-> FALSE, value |-> text.json]
    ELSE [threw |-> TRUE,  message |-> <<"S","y","n","t","a","x","E","r","r","o","r">>]

\* try: json.dumps(_analyzer.analyze_filename(filename)); analyze_filename
\* raises nothing, so the except branch is never taken
analyze_document_wasm(arg) == json_dumps(analyze_filename(arg))

\* pyodide.runPython(`analyze_document_wasm("${filename}")`): the file name
\* is pasted between two double quotes of Python source.  A double quote in
\* the name ends the string literal there; the rest of the name follows it
\* as source text, which for the names used here is no Python: SyntaxError.
\* (Names with a backslash or a line break are not among the inputs.)
runPython_analyze_document_wasm(name) ==
    IF includes(name, Quote)
    THEN [threw |-> TRUE,  message |-> <<"P","y","t","h","o","n","E","r","r","o","r",":"," ","S","y","n","t","a","x","E","r","r","o","r">>]
    ELSE [threw |-> FALSE, value |-> analyze_document_wasm(name)]

\* try { return JSON.parse(runPython(...)) } catch (error) { return {...} }
pythonModule_analyzeDocument(name) ==
    LET result == runPython_analyze_document_wasm(name)
    IN  IF result.threw
        THEN [ originalName  |-> name,
               suggestedName |-> name,
               confidence    |-> 0,
               documentType  |-> "unknown",
               error         |-> result.message ]
        ELSE JSON_parse(result.value).value

-----------------------------------------------------------------------------
(* analyzeDocument of the three revisions.  AnalysisResult.confidence is   *)
(* counted in hundredths: the mock analyses return 0.85 and 0.95.          *)

Hundred == 100

Hundredths(tenths) == 10 * tenths

\* String.prototype.includes for a text
includesText(text, word) ==
    \E i \in 1..(Len(text) - Len(word) + 1) :
        SubSeq(text, i, i + Len(word) - 1) = word

\* fileName.split('.').pop(): what follows the last '.', the whole name when
\* there is none
splitPop(name) == SubSeq(name, lastIndexOf(name, Dot) + 1, Len(name))

\* fileName.split('.')[0]: what precedes the first '.', the whole name when
\* there is none
splitFirst(name) ==
    IF includes(name, Dot) THEN SubSeq(name, 1, indexOf(name, Dot) - 1) ELSE name

\* String.prototype.replace(word, by): the first occurrence only
replace(text, word, by) ==
    IF includesText(text, word)
    THEN LET i == CHOOSE i \in 1..(Len(text) - Len(word) + 1) :
                    /\ SubSeq(text, i, i + Len(word) - 1) = word
                    /\ \A j \in 1..(i-1) : SubSeq(text, j, j + Len(word) - 1) # word
         IN  SubSeq(text, 1, i - 1) \o by \o SubSeq(text, i + Len(word), Len(text))
    ELSE text

\* Object.entries(documentTypes) of mockPythonAnalysis and fallbackAnalysis;
\* the value is kept as the text put into the name and as the documentType
documentTypes ==
    << [key |-> <<"m","a","r","k","s","h","e","e","t">>,   value |-> <<"1","0","t","h","M","a","r","k","s","h","e","e","t">>,     label |-> "10thMarksheet"],
       [key |-> <<"c","e","r","t","i","f","i","c","a","t","e">>, value |-> <<"C","e","r","t","i","f","i","c","a","t","e">>,       label |-> "Certificate"],
       [key |-> <<"p","h","o","t","o">>,       value |-> <<"P","a","s","s","p","o","r","t","P","h","o","t","o">>,     label |-> "PassportPhoto"],
       [key |-> <<"s","i","g","n","a","t","u","r","e">>,   value |-> <<"S","i","g","n","a","t","u","r","e">>,         label |-> "Signature"],
       [key |-> <<"a","a","d","h","a","r">>,      value |-> <<"A","a","d","h","a","r","C","a","r","d">>,        label |-> "AadharCard"],
       [key |-> <<"p","a","n">>,         value |-> <<"P","A","N","C","a","r","d">>,           label |-> "PANCard"],
       [key |-> <<"c","a","s","t","e">>,       value |-> <<"C","a","s","t","e","C","e","r","t","i","f","i","c","a","t","e">>,  label |-> "CasteCertificate"],
       [key |-> <<"i","n","c","o","m","e">>,      value |-> <<"I","n","c","o","m","e","C","e","r","t","i","f","i","c","a","t","e">>, label |-> "IncomeCertificate"] >>

\* the body shared by mockPythonAnalysis (part_004) and fallbackAnalysis
\* (part_005), which differ in the documentType of an unrecognised name
keywordAnalysis(fileName, unrecognised) ==
    LET lowerName == toLowerCase(fileName)
        hits      == { n \in 1..Len(documentTypes) :
                          includesText(lowerName, documentTypes[n].key) }
        hit       == hits # {}
        first     == CHOOSE n \in hits : \A m \in hits : n <= m
        name0     == IF hit
                     THEN documentTypes[first].value \o <<Dot>> \o splitPop(fileName)
                     ELSE fileName
        conf0     == IF hit THEN 85 ELSE 50
        tenth     == includesText(lowerName, <<"1","0">>) \/ includesText(lowerName, <<"t","e","n","t","h">>)
        twelfth   == includesText(lowerName, <<"1","2">>) \/ includesText(lowerName, <<"t","w","e","l","f","t","h">>)
        name1     == IF tenth THEN replace(name0, <<"M","a","r","k","s","h","e","e","t">>, <<"1","0","t","h","M","a","r","k","s","h","e","e","t">>)
                     ELSE IF twelfth THEN replace(name0, <<"M","a","r","k","s","h","e","e","t">>, <<"1","2","t","h","M","a","r","k","s","h","e","e","t">>)
                     ELSE name0
        conf1     == IF tenth \/ twelfth THEN Min(conf0 + 10, Hundred) ELSE conf0
    IN  [ originalName  |-> fileName,
          suggestedName |-> name1,
          confidence    |-> conf1,
          documentType  |-> IF hit THEN documentTypes[first].label ELSE unrecognised ]

mockPythonAnalysis(fileName) == keywordAnalysis(fileName, "Unknown")

fallbackAnalysis(fileName) == keywordAnalysis(fileName, "Document")

\* a bug: no check of the initialised flag before the analysis
analyzeDocumentUnguarded(init, file) ==
    LET analysis == analyzeFilename(file.name)
    IN  Fulfilled([ originalName  |-> file.name,
                    suggestedName |-> analysis.suggestedName,
                    confidence    |-> Hundredths(analysis.confidence),
                    documentType  |-> analysis.documentType ])

\* wasmService.ts: the try block returns the analysis of analyzeFilename,
\* which throws nothing, so the catch branch (suggestedName: file.name,
\* confidence 0.5, 'unknown') is never taken
analyzeDocument(init, file) ==
    IF ~init THEN Rejected(<<"D","o","c","u","m","e","n","t"," ","s","e","r","v","i","c","e"," ","n","o","t"," ","i","n","i","t","i","a","l","i","z","e","d">>)
    ELSE LET analysis == analyzeFilename(file.name)
         IN  Fulfilled([ originalName  |-> file.name,
                         suggestedName |-> analysis.suggestedName,
                         confidence    |-> Hundredths(analysis.confidence),
                         documentType  |-> analysis.documentType ])

\* part_004: pythonModule.analyzeDocument returns an object, JSON.parse of
\* it throws, and the catch branch answers with mockPythonAnalysis
analyzeDocument_part_004(init, file) ==
    IF ~init THEN Rejected(<<"P","y","t","h","o","n"," ","W","A","S","M"," ","m","o","d","u","l","e"," ","n","o","t"," ","i","n","i","t","i","a","l","i","z","e","d">>)
    ELSE LET resultJson == pythonModule_analyzeDocument(file.name)
             result     == JSON_parse(resultJson)
         IN  IF result.threw
             THEN Fulfilled(mockPythonAnalysis(file.name))
             ELSE Fulfilled([ originalName  |-> result.value.original_name,
                              suggestedName |-> result.value.suggested_name,
                              confidence    |-> Hundredths(result.value.confidence),
                              documentType  |-> result.value.document_type ])

\* result[field] || otherwise
OrElse(result, field, falsy, otherwise) ==
    IF field \in DOMAIN result /\ result[field] # falsy
    THEN result[field] ELSE otherwise

\* a bug: the analysis of a name that could not be evaluated is answered
\* with the fallback name 'Document' instead of file.name
analyzeDocument_part_005_Document(init, file) ==
    IF ~init THEN Rejected(<<"P","y","t","h","o","n"," ","W","A","S","M"," ","m","o","d","u","l","e"," ","n","o","t"," ","i","n","i","t","i","a","l","i","z","e","d">>)
    ELSE LET result == pythonModule_analyzeDocument(file.name)
         IN  Fulfilled([ originalName  |-> OrElse(result, "original_name", <<>>, file.name),
                         suggestedName |-> OrElse(result, "suggested_name", <<>>, <<"D","o","c","u","m","e","n","t">>),
                         confidence    |-> Hundredths(OrElse(result, "confidence", 0, 5)),
                         documentType  |-> OrElse(result, "document_type", "", "unknown") ])

\* part_005: pythonModule.analyzeDocument throws nothing, so the catch
\* branch (fallbackAnalysis) is never taken
analyzeDocument_part_005(init, file) ==
    IF ~init THEN Rejected(<<"P","y","t","h","o","n"," ","W","A","S","M"," ","m","o","d","u","l","e"," ","n","o","t"," ","i","n","i","t","i","a","l","i","z","e","d">>)
    ELSE LET result == pythonModule_analyzeDocument(file.name)
         IN  Fulfilled([ originalName  |-> OrElse(result, "original_name", <<>>, file.name),
                         suggestedName |-> OrElse(result, "suggested_name", <<>>, file.name),
                         confidence    |-> Hundredths(OrElse(result, "confidence", 0, 5)),
                         documentType  |-> OrElse(result, "document_type", "", "unknown") ])

-----------------------------------------------------------------------------
(* convertDocuments of the three revisions                                 *)

DefaultMaxSize == 5242880

mimeTypes ==
    (<<"P","D","F">> :> <<"a","p","p","l","i","c","a","t","i","o","n","/","p","d","f">>) @@ (<<"J","P","E","G">> :> <<"i","m","a","g","e","/","j","p","e","g">>) @@
    (<<"J","P","G">> :> <<"i","m","a","g","e","/","j","p","e","g">>) @@ (<<"P","N","G">> :> <<"i","m","a","g","e","/","p","n","g">>) @@
    (<<"D","O","C","X">> :>
      <<"a","p","p","l","i","c","a","t","i","o","n","/","v","n","d",".","o","p","e","n","x","m","l","f","o","r","m","a","t","s","-","o","f","f","i","c","e","d","o","c","u","m","e","n","t",".","w","o","r","d","p","r","o","c","e","s","s","i","n","g","m","l",".","d","o","c","u","m","e","n","t">>)

\* mimeTypes[format.toUpperCase()] || 'application/octet-stream'
getMimeType(format) ==
    IF toUpperCase(format) \in DOMAIN mimeTypes
    THEN mimeTypes[toUpperCase(format)] ELSE <<"a","p","p","l","i","c","a","t","i","o","n","/","o","c","t","e","t","-","s","t","r","e","a","m">>

\* targetFormats[0]
primaryFormatOf(targetFormats) ==
    IF Len(targetFormats) >= 1 THEN targetFormats[1] ELSE undefined

\* maxSizes[primaryFormat] || 5 * 1024 * 1024
maxSizeOf(maxSizes, primaryFormat) ==
    IF primaryFormat \in DOMAIN maxSizes /\ maxSizes[primaryFormat] # 0
    THEN maxSizes[primaryFormat] ELSE DefaultMaxSize

\* what the canvas makes of an image: a blob that fits the limit, a blob
\* that is still above it (scaling the area by maxSize / file.size bounds
\* no byte count), or nothing (toBlob gives null, or the image fails to
\* load), in which case the file itself is handed back
CompressOutcomes == {"fits", "tooLarge", "original"}

compressImage(file, maxSize, outcome) ==
    IF ~file.readable \/ outcome = "original" THEN file
    ELSE [ name     |-> file.name,
           size     |-> IF outcome = "fits" THEN maxSize \div 2 ELSE maxSize + 1,
           type     |-> file.type,
           bytes    |-> <<"canvas">> \o file.bytes,
           readable |-> TRUE ]

\* what the canvas may make of each file of a list: only images reach it
CanvasOutcomes(docs) ==
    { o \in [1..Len(docs) -> CompressOutcomes] :
        \A i \in 1..Len(docs) :
            ~startsWith(docs[i].type, <<"i","m","a","g","e","/">>) => o[i] = "original" }

\* new Blob([bytes], {type}) and URL.createObjectURL(blob)
Blob(bytes, type, size) == [bytes |-> bytes, type |-> type, size |-> size]

createObjectURL(blob) == <<"blob:", blob>>

\* a bug: the name cut at the first '.' (split('.')[0]) instead of the last
baseNameFirstDot(name) ==
    IF splitFirst(name) # <<>> THEN splitFirst(name) ELSE name

\* file.name.substring(0, file.name.lastIndexOf('.')) || file.name
baseName(name) ==
    IF substring(name, 0, lastIndexOf(name, Dot) - 1) # <<>>
    THEN substring(name, 0, lastIndexOf(name, Dot) - 1) ELSE name

\* let processedFile = file; if (file.size > maxSize) { if image: compress;
\* else console.warn }
processFile(file, maxSize, outcome) ==
    IF file.size > maxSize /\ startsWith(file.type, <<"i","m","a","g","e","/">>)
    THEN compressImage(file, maxSize, outcome)
    ELSE file

Thrown(message) == [threw |-> TRUE, message |-> message]

Returned(value) == [threw |-> FALSE, value |-> value]

\* one iteration of the loop of convertDocuments (wasmService.ts)
convertFile(file, examType, targetFormats, maxSizes, outcome) ==
    LET primaryFormat == primaryFormatOf(targetFormats)
        maxSize       == maxSizeOf(maxSizes, primaryFormat)
        processedFile == processFile(file, maxSize, outcome)
    IN  IF ~processedFile.readable THEN Thrown(<<"N","o","t","R","e","a","d","a","b","l","e","E","r","r","o","r">>)
        ELSE IF primaryFormat = undefined THEN Thrown(<<"T","y","p","e","E","r","r","o","r">>)
        ELSE Returned(
               [ originalName  |-> file.name,
                 convertedName |-> baseName(file.name) \o <<"_">>
                                     \o toUpperCase(examType) \o <<Dot>>
                                     \o toLowerCase(primaryFormat),
                 downloadUrl   |-> createObjectURL(
                                     Blob(processedFile.bytes,
                                          getMimeType(primaryFormat),
                                          processedFile.size)) ])

\* the result of a loop over the files: the failure of the first iteration
\* that throws, or the list of what the iterations returned
Collect(steps) ==
    IF \E i \in 1..Len(steps) : steps[i].threw
    THEN Thrown(steps[CHOOSE i \in 1..Len(steps) :
                        /\ steps[i].threw
                        /\ \A j \in 1..(i-1) : ~steps[j].threw].message)
    ELSE Returned([i \in 1..Len(steps) |-> steps[i].value])

\* wasmService.ts: the whole loop is inside one try block
convertDocuments(init, docs, examType, targetFormats, maxSizes, outcomes) ==
    IF ~init THEN Rejected(<<"D","o","c","u","m","e","n","t"," ","s","e","r","v","i","c","e"," ","n","o","t"," ","i","n","i","t","i","a","l","i","z","e","d">>)
    ELSE LET loop == Collect([i \in 1..Len(docs) |->
                          convertFile(docs[i], examType, targetFormats,
                                      maxSizes, outcomes[i])])
         IN  IF loop.threw
             THEN Fulfilled([ success |-> FALSE, files |-> <<>>,
                              error   |-> loop.message ])
             ELSE Fulfilled([ success |-> TRUE, files |-> loop.value,
                              error   |-> undefined ])

\* one iteration of the loop of mockConversion / fallbackConversion
mockConvertFile(file, targetFormats) ==
    LET primaryFormat == primaryFormatOf(targetFormats)
    IN  IF ~file.readable THEN Thrown(<<"N","o","t","R","e","a","d","a","b","l","e","E","r","r","o","r">>)
        ELSE IF primaryFormat = undefined THEN Thrown(<<"T","y","p","e","E","r","r","o","r">>)
        ELSE Returned(
               [ originalName  |-> file.name,
                 convertedName |-> splitFirst(file.name) \o <<"_","c","o","n","v","e","r","t","e","d",".">>
                                     \o toLowerCase(primaryFormat),
                 downloadUrl   |-> createObjectURL(
                                     Blob(file.bytes, getMimeType(primaryFormat),
                                          file.size)) ])

\* mockConversion (part_004) and fallbackConversion (part_005): no try
\* block, an error of the loop rejects the promise
mockConversion(docs, targetFormats) ==
    LET loop == Collect([i \in 1..Len(docs) |->
                            mockConvertFile(docs[i], targetFormats)])
    IN  IF loop.threw THEN Rejected(loop.message)
        ELSE Fulfilled([ success |-> TRUE, files |-> loop.value,
                         error   |-> undefined ])

fallbackConversion(docs, targetFormats) == mockConversion(docs, targetFormats)

\* WasmDocumentConverter.convert_documents of wasm-loader.js (a mock), with
\* the download URL the service puts in place of 'blob:mock-<index>': a blob
\* of the bytes of sources[i] for entry i
rustConversion(docs, targetFormats, sources) ==
    [i \in 1..Len(docs) |->
        [ originalName  |-> docs[i].name,
          convertedName |-> <<"c","o","n","v","e","r","t","e","d","_">> \o docs[i].name,
          downloadUrl   |-> createObjectURL(
                              Blob(sources[i].bytes,
                                   getMimeType(primaryFormatOf(targetFormats)),
                                   sources[i].size)) ]]

\* what the try block of part_004 / part_005 throws: Promise.all of the
\* arrayBuffer() calls rejects for an unreadable file; getMimeType of an
\* absent format is a TypeError
rustConversionThrows(docs, targetFormats) ==
    \/ \E i \in 1..Len(docs) : ~docs[i].readable
    \/ Len(docs) > 0 /\ primaryFormatOf(targetFormats) = undefined

\* part_004: every blob is made of fileData[0].content
convertDocuments_part_004(init, docs, examType, targetFormats, maxSizes, outcomes) ==
    IF ~init THEN Rejected(<<"R","u","s","t"," ","W","A","S","M"," ","m","o","d","u","l","e"," ","n","o","t"," ","i","n","i","t","i","a","l","i","z","e","d">>)
    ELSE IF rustConversionThrows(docs, targetFormats)
    THEN mockConversion(docs, targetFormats)
    ELSE Fulfilled([ success |-> TRUE,
                     files   |-> rustConversion(docs, targetFormats,
                                                [i \in 1..Len(docs) |-> docs[1]]),
                     error   |-> null ])

\* part_005: the blob of entry i is made of files[i]
convertDocuments_part_005(init, docs, examType, targetFormats, maxSizes, outcomes) ==
    IF ~init THEN fallbackConversion(docs, targetFormats)
    ELSE IF rustConversionThrows(docs, targetFormats)
    THEN fallbackConversion(docs, targetFormats)
    ELSE Fulfilled([ success |-> TRUE,
                     files   |-> rustConversion(docs, targetFormats,
                                                docs),
                     error   |-> null ])

\* the methods of the revision that is deployed
serviceAnalyzeDocument(revision, init, file) ==
    CASE revision = Live    -> analyzeDocument(init, file)
      [] revision = Part004 -> analyzeDocument_part_004(init, file)
      [] revision = Part005 -> analyzeDocument_part_005(init, file)

\* analyzeDocument depends on nothing but the revision, the flag and the
\* file: its answers for the files of the model, computed once
analysisOf ==
    [ revision \in {Live, Part004, Part005} |->
        [ init \in BOOLEAN |->
            [ file \in Files |-> serviceAnalyzeDocument(revision, init, file) ] ] ]

serviceConvertDocuments(revision, init, docs, examType, targetFormats, maxSizes, outcomes) ==
    CASE revision = Live    ->
            convertDocuments(init, docs, examType, targetFormats, maxSizes, outcomes)
      [] revision = Part004 ->
            convertDocuments_part_004(init, docs, examType, targetFormats, maxSizes, outcomes)
      [] revision = Part005 ->
            convertDocuments_part_005(init, docs, examType, targetFormats, maxSizes, outcomes)

-----------------------------------------------------------------------------
(* The application (App.tsx)                                               *)

\* at most MaxFiles file items are in the list, and a call of the service
\* converts at most MaxFiles files
MaxFiles == 2

\* the exams selected in the model
SelectableExams == { <<"u","p","s","c">>, <<"j","e","e">> }

\* a FileItem as the upload component hands it to handleFilesSelected: the
\* fields of the interface FileItem, filled from the File, with the first
\* status of the type and no progress
NewFileItem(id, file) ==
    [ id           |-> id,
      file         |-> file,
      name         |-> file.name,
      originalName |-> file.name,
      size         |-> file.size,
      type         |-> file.type,
      status       |-> "pending",
      progress     |-> 0,
      convertedUrl |-> undefined,
      error        |-> undefined ]

\* const filesToConvert = files.map(f => f.file)
filesToConvert(list) == [k \in 1..Len(list) |-> list[k].file]

\* wasmService.convertDocuments(filesToConvert, selectedExam, config.formats,
\* config.maxSizes): the pending promise, as the answers it may settle with
convertCall(revision, init, docs, exam) ==
    { serviceConvertDocuments(revision, init, docs, exam,
                              examConfigs[exam].formats,
                              examConfigs[exam].maxSizes, outcomes) :
          outcomes \in CanvasOutcomes(docs) }

\* no handleConvert has been called yet
NoRun == [pc |-> "idle"]

\* no method of the service has been called, or its outcome has been taken
NoCall == [op |-> "none"]

\* a bug: every item is updated, not only the one with the id
setStatusAll(prev, id, status, progress) ==
    [k \in 1..Len(prev) |->
        [prev[k] EXCEPT !.status = status, !.progress = progress]]

\* prev.map(f => f.id === id ? { ...f, status, progress } : f)
setStatus(prev, id, status, progress) ==
    [k \in 1..Len(prev) |->
        IF prev[k].id = id
        THEN [prev[k] EXCEPT !.status = status, !.progress = progress]
        ELSE prev[k]]

\* a bug: the suggested name also overwrites originalName
setAnalysedOriginalName(prev, id, name) ==
    [k \in 1..Len(prev) |->
        IF prev[k].id = id
        THEN [prev[k] EXCEPT !.name = name, !.originalName = name,
                             !.status = "converting", !.progress = 50]
        ELSE prev[k]]

\* prev.map(f => f.id === id ? { ...f, name, status: 'converting',
\* progress: 50 } : f)
setAnalysed(prev, id, name) ==
    [k \in 1..Len(prev) |->
        IF prev[k].id = id
        THEN [prev[k] EXCEPT !.name = name, !.status = "converting", !.progress = 50]
        ELSE prev[k]]

\* the list after the await of analyzeDocument: the try branch takes the
\* suggested name, the catch branch keeps the name
afterAnalysis(prev, fileItem, analysis) ==
    IF analysis.settled = "fulfilled"
    THEN setAnalysed(prev, fileItem.id, analysis.value.suggestedName)
    ELSE setStatus(prev, fileItem.id, "converting", 50)

\* prev.map(f => ({ ...f, status: 'error', error: message }))
setAllFailed(prev, message) ==
    [k \in 1..Len(prev) |->
        [prev[k] EXCEPT !.status = "error", !.error = message]]

\* prev.map((f, index) => ({ ...f, status: 'success', progress: 100,
\* convertedUrl: result.files[index]?.downloadUrl }))
setAllConverted(prev, converted, runFiles) ==
    [k \in 1..Len(prev) |->
        [prev[k] EXCEPT
            !.status = "success", !.progress = 100,
            !.convertedUrl = IF k <= Len(converted)
                             THEN converted[k].downloadUrl ELSE undefined]]

\* a bug: no catch around the await, a rejected conversion leaves the list
\* as it is
afterConversionNoCatch(prev, runFiles, result) ==
    IF result.settled = "rejected"
    THEN prev
    ELSE IF result.value.success
    THEN setAllConverted(prev, result.value.files, runFiles)
    ELSE setAllFailed(prev, IF result.value.error \in {undefined, null, <<>>}
                            THEN <<"C","o","n","v","e","r","s","i","o","n"," ","f","a","i","l","e","d">>
                            ELSE result.value.error)

\* the list after the await of convertDocuments
afterConversion(prev, runFiles, result) ==
    IF result.settled = "rejected"
    THEN setAllFailed(prev, result.reason)
    ELSE IF result.value.success
    THEN setAllConverted(prev, result.value.files, runFiles)
    ELSE setAllFailed(prev, IF result.value.error \in {undefined, null, <<>>}
                            THEN <<"C","o","n","v","e","r","s","i","o","n"," ","f","a","i","l","e","d">>
                            ELSE result.value.error)

-----------------------------------------------------------------------------
(* File names the classifiers are run on *)

\* words, separators and extensions a generated name is made of
Vocabulary ==
    { <<"m","a","r","k","s","h","e","e","t">>, <<"M","a","r","k","S","h","e","e","t">>, <<"1","0","t","h">>, <<"t","e","n","t","h">>, <<"1","2","t","h">>, <<"p","h","o","t","o">>,
      <<"f","i","l","e">>, <<".">>, <<".","J","P","G">>, <<".","b","a","t">> }

\* names from the specification and the documentation of the classifier, and
\* one that names three education levels and no document type
NamedFiles ==
    { <<"1","2","t","h","_","m","a","r","k","s","h","e","e","t",".","p","d","f">>, <<"m","a","r","k"," ","s","h","e","e","t",".","p","d","f">>, <<"T","e","n","t","h","_","R","e","s","u","l","t",".","P","D","F">>,
      <<"c","a","s","t","e"," ","c","e","r","t","i","f","i","c","a","t","e",".","p","d","f">>, <<"b",".","t","e","c","h"," ","d","e","g","r","e","e",".","p","d","f">>, <<"1","0","t","h","_","1","2","t","h","_","p","h","d",".","p","d","f">>,
      <<"m","a","r","k","s","h","e","e","t",".","p","d","f">>, <<"i","m","a","g","e",".","j","p","g">>, <<"d","i","p","l","o","m","a",".","p","d","f">>,
      <<"p","o","s","t"," ","g","r","a","d","u","a","t","i","o","n",".","p","d","f">>, <<"p","o","s","t","g","r","a","d","u","a","t","i","o","n",".","p","d","f">>,
      <<"c","a","t","e","g","o","r","y"," ","c","e","r","t","i","f","i","c","a","t","e",".","p","d","f">> }

Filenames ==
    { join(words) : words \in UNION { [1..n -> Vocabulary] : n \in 0..MaxTokens } }
        \cup NamedFiles

NotAnalysed == [analysed |-> FALSE]

-----------------------------------------------------------------------------
(* The state machine: a file name arrives and each classifier is run on it *)

\* the application before its mount effect has run
AppNotMounted ==
    /\ wasmLoaded = FALSE
    /\ wasmError = null
    /\ selectedExam = <<"u","p","s","c">>
    /\ files = << >>
    /\ isConverting = FALSE
    /\ run = NoRun

\* no file name is handed to the classifiers
ClassifierAtRest ==
    /\ filename = << >>
    /\ tsAnalysis = NotAnalysed
    /\ pyAnalysis = NotAnalysed

Init ==
    /\ filename \in Filenames
    /\ tsAnalysis = NotAnalysed
    /\ pyAnalysis = NotAnalysed
    /\ build = Live
    /\ initialized = TRUE
    /\ call = NoCall
    /\ AppNotMounted

\* wasmService.analyzeDocument -> this.analyzeFilename(file.name)
AnalyzeFilename ==
    /\ tsAnalysis = NotAnalysed
    /\ tsAnalysis' = analyzeFilename(filename)
    /\ UNCHANGED <<filename, pyAnalysis>>
    /\ UNCHANGED <<build, initialized, call, appVars>>

\* analyze_document_wasm -> _analyzer.analyze_filename(filename)
AnalyzeFilenamePy ==
    /\ pyAnalysis = NotAnalysed
    /\ pyAnalysis' = analyze_filename(filename)
    /\ UNCHANGED <<filename, tsAnalysis>>
    /\ UNCHANGED <<build, initialized, call, appVars>>

Next == AnalyzeFilename \/ AnalyzeFilenamePy

Spec == Init /\ [][Next]_vars

TsDone == tsAnalysis # NotAnalysed

PyDone == pyAnalysis # NotAnalysed

-----------------------------------------------------------------------------
(* The service called directly: initialize, analyzeDocument and            *)
(* convertDocuments of a revision, in any order                            *)

\* whether the scripts the revision loads arrive: wasmService.ts loads
\* nothing, part_004 and part_005 load wasm-loader.js and Pyodide
LoadOutcomes(revision) == IF revision = Live THEN {TRUE} ELSE {TRUE, FALSE}

\* formats, limits and exam type a conversion is asked for
ConversionRequests ==
    { [ examType      |-> e,
        targetFormats |-> examConfigs[e].formats,
        maxSizes      |-> examConfigs[e].maxSizes ] : e \in SelectableExams }
    \cup
    { [ examType      |-> <<"J","e","e">>,
        targetFormats |-> << <<"j","p","g">> >>,
        maxSizes      |-> examConfigs[<<"j","e","e">>].maxSizes ],
      [ examType      |-> <<"c","a","t">>,
        targetFormats |-> << <<"t","i","f","f">> >>,
        maxSizes      |-> << >> ],
      [ examType      |-> <<"g","a","t","e">>,
        targetFormats |-> << >>,
        maxSizes      |-> examConfigs[<<"g","a","t","e">>].maxSizes ] }

InitService ==
    /\ ClassifierAtRest
    /\ AppNotMounted
    /\ build \in {Live, Part004, Part005}
    /\ initialized = FALSE
    /\ call = NoCall

\* wasmService.initialize()
Initialize ==
    /\ call = NoCall
    /\ \E loaded \in LoadOutcomes(build) :
          IF initialized
          THEN /\ call' = [op |-> "initialize", result |-> Fulfilled(undefined)]
               /\ UNCHANGED initialized
          ELSE IF loaded
          THEN /\ initialized' = TRUE
               /\ call' = [op |-> "initialize", result |-> Fulfilled(undefined)]
          ELSE /\ call' = [op |-> "initialize",
                           result |-> Rejected(<<"F","a","i","l","e","d"," ","t","o"," ","l","o","a","d"," ","W","A","S","M"," ","l","o","a","d","e","r">>)]
               /\ UNCHANGED initialized
    /\ UNCHANGED <<build, classifierVars, appVars>>

\* wasmService.analyzeDocument(file)
AnalyzeDocument ==
    /\ call = NoCall
    /\ \E file \in Files :
          call' = [ op     |-> "analyzeDocument",
                    file   |-> file,
                    result |-> serviceAnalyzeDocument(build, initialized, file) ]
    /\ UNCHANGED <<build, initialized, classifierVars, appVars>>

\* wasmService.convertDocuments(files, examType, targetFormats, maxSizes)
ConvertDocuments ==
    /\ call = NoCall
    /\ \E list \in FileLists(MaxFiles), request \in ConversionRequests :
       \E outcomes \in CanvasOutcomes(list) :
          call' = [ op            |-> "convertDocuments",
                    files         |-> list,
                    examType      |-> request.examType,
                    targetFormats |-> request.targetFormats,
                    maxSizes      |-> request.maxSizes,
                    result        |-> serviceConvertDocuments(build, initialized,
                                         list, request.examType,
                                         request.targetFormats, request.maxSizes,
                                         outcomes) ]
    /\ UNCHANGED <<build, initialized, classifierVars, appVars>>

\* the caller has taken the outcome of the call
TakeOutcome ==
    /\ call # NoCall
    /\ call' = NoCall
    /\ UNCHANGED <<build, initialized, classifierVars, appVars>>

NextService == Initialize \/ AnalyzeDocument \/ ConvertDocuments \/ TakeOutcome

SpecService == InitService /\ [][NextService]_vars

-----------------------------------------------------------------------------
(* The application: the mount effect, the selection of files and of the    *)
(* exam, and handleConvert cut at its awaits.  analyzeDocument awaits      *)
(* nothing, so the awaits of the analysis loop resume in microtasks: no    *)
(* event handler runs between the click and the call of convertDocuments.  *)
(* convertDocuments waits for a timer and reads the files: handlers run    *)
(* while it is pending.                                                    *)

InitApp ==
    /\ ClassifierAtRest
    /\ AppNotMounted
    /\ initialized = FALSE
    /\ call = NoCall

\* useEffect: await wasmService.initialize(); setWasmLoaded(true), or
\* setWasmError(message) when it throws
InitializeWasm ==
    /\ ~wasmLoaded /\ wasmError = null
    /\ \E loaded \in LoadOutcomes(build) :
          IF loaded
          THEN /\ initialized' = TRUE
               /\ wasmLoaded' = TRUE
               /\ UNCHANGED wasmError
          ELSE /\ wasmError' = <<"F","a","i","l","e","d"," ","t","o"," ","l","o","a","d"," ","W","A","S","M"," ","l","o","a","d","e","r">>
               /\ UNCHANGED <<initialized, wasmLoaded>>
    /\ UNCHANGED <<build, call, classifierVars, selectedExam, files,
                   isConverting, run>>

\* handleFilesSelected(newFiles): setFiles(prev => [...prev, ...newFiles])
HandleFilesSelected ==
    /\ wasmLoaded
    /\ run.pc # "analyzing"
    /\ \E newFiles \in FileLists(MaxFiles - Len(files)) \ { << >> } :
          files' = files \o [k \in 1..Len(newFiles) |->
                                NewFileItem(Len(files) + k, newFiles[k])]
    /\ UNCHANGED <<build, initialized, call, classifierVars, wasmLoaded,
                   wasmError, selectedExam, isConverting, run>>

\* ExamSelector: onExamChange={setSelectedExam}
SelectExam ==
    /\ wasmLoaded
    /\ run.pc # "analyzing"
    /\ \E exam \in SelectableExams \ {selectedExam} : selectedExam' = exam
    /\ UNCHANGED <<build, initialized, call, classifierVars, wasmLoaded,
                   wasmError, files, isConverting, run>>

\* the Convert button is on the page: neither the error screen nor the
\* loading screen is shown, and files.length > 0
ConvertButtonRendered ==
    /\ wasmError = null
    /\ wasmLoaded
    /\ Len(files) > 0

\* a bug: the button stays enabled while a run is in progress
ConvertButtonNeverDisabled == isConverting /\ ~isConverting

\* disabled={isConverting || files.some(f => f.status === 'analyzing' ||
\* f.status === 'converting')}
ConvertButtonDisabled ==
    \/ isConverting
    \/ \E k \in 1..Len(files) : files[k].status \in {"analyzing", "converting"}

\* handleConvert from its call to its first await, on the states of the
\* render it was created in: the early return, or setIsConverting(true),
\* the first item set to 'analyzing' and analyzeDocument called for it
handleConvert(list, loaded, converting, exam, current) ==
    IF Len(list) = 0 \/ ~loaded
    THEN [ files |-> list, isConverting |-> converting, run |-> current ]
    ELSE [ files        |-> setStatus(list, list[1].id, "analyzing", 20),
           isConverting |-> TRUE,
           run          |-> [ pc |-> "analyzing", files |-> list,
                              selectedExam |-> exam, index |-> 1 ] ]

\* a click on the Convert button: onClick={handleConvert}
HandleConvert ==
    /\ ConvertButtonRendered
    /\ ~ConvertButtonDisabled
    /\ LET entered == handleConvert(files, wasmLoaded, isConverting,
                                    selectedExam, run)
       IN  /\ files' = entered.files
           /\ isConverting' = entered.isConverting
           /\ run' = entered.run
    /\ UNCHANGED <<build, initialized, call, classifierVars, wasmLoaded,
                   wasmError, selectedExam>>

\* handleConvert from the await of analyzeDocument(fileItem.file) to the
\* next await: the analysis of the next item, or the call of
\* convertDocuments with files.map(f => f.file)
AnalysisSettled ==
    /\ run.pc = "analyzing"
    /\ LET fileItem == run.files[run.index]
           analysis == analysisOf[build][initialized][fileItem.file]
           analysed == afterAnalysis(files, fileItem, analysis)
       IN  IF run.index < Len(run.files)
           THEN /\ files' = setStatus(analysed, run.files[run.index + 1].id,
                                      "analyzing", 20)
                /\ run' = [run EXCEPT !.index = run.index + 1]
           ELSE /\ files' = analysed
                /\ run' = [ pc             |-> "converting",
                            files          |-> run.files,
                            selectedExam   |-> run.selectedExam,
                            filesToConvert |-> filesToConvert(run.files),
                            promise        |-> convertCall(build, initialized,
                                                   filesToConvert(run.files),
                                                   run.selectedExam) ]
    /\ UNCHANGED <<build, initialized, call, classifierVars, wasmLoaded,
                   wasmError, selectedExam, isConverting>>

\* handleConvert from the await of convertDocuments to its end; run keeps
\* what the call was given and what it answered
ConversionSettled ==
    /\ run.pc = "converting"
    /\ \E result \in run.promise :
              /\ files' = afterConversion(files, run.files, result)
              /\ run' = [ pc             |-> "idle",
                          files          |-> run.files,
                          selectedExam   |-> run.selectedExam,
                          filesToConvert |-> run.filesToConvert,
                          result         |-> result ]
    /\ isConverting' = FALSE
    /\ UNCHANGED <<build, initialized, call, classifierVars, wasmLoaded,
                   wasmError, selectedExam>>

NextApp ==
    \/ InitializeWasm
    \/ HandleFilesSelected
    \/ SelectExam
    \/ HandleConvert
    \/ AnalysisSettled
    \/ ConversionSettled

\* the application built with wasmService.ts
InitAppLive == InitApp /\ build = Live

SpecApp == InitAppLive /\ [][NextApp]_vars

\* the application built with part_005 and wasm-loader.js
InitAppPyodide == InitApp /\ build = Part005

SpecAppPyodide == InitAppPyodide /\ [][NextApp]_vars

\* the application with either service, its awaits settling: the timers of
\* convertDocuments expire, File.arrayBuffer() settles, and an image given
\* to compressImage loads or fails to load, so the continuation of every
\* await of handleConvert is eventually run
InitAppAny == InitApp /\ build \in {Live, Part005}

SpecAppFair ==
    /\ InitAppAny
    /\ [][NextApp]_vars
    /\ WF_vars(AnalysisSettled)
    /\ WF_vars(ConversionSettled)

-----------------------------------------------------------------------------
(* Vocabulary of the claims *)

\* the word occurs in the text, in any letter case
ContainsWord(text, word) ==
    \E i \in 1..(Len(text) - Len(word) + 1) :
        \A k \in 1..Len(word) : FoldChar(text[i + k - 1]) = word[k]

HasDot(name) == \E i \in 1..Len(name) : name[i] = "."

LastDot(name) ==
    CHOOSE i \in 1..Len(name) :
        name[i] = "." /\ \A j \in 1..Len(name) : name[j] = "." => j <= i

\* the name up to its last '.', the whole name when it has none
StemOf(name) == IF HasDot(name) THEN SubSeq(name, 1, LastDot(name) - 1) ELSE name

\* the text after the last '.', empty when there is none
ExtensionOf(name) ==
    IF HasDot(name) THEN SubSeq(name, LastDot(name) + 1, Len(name)) ELSE <<>>

HasUpperCase(text) == \E i \in 1..Len(text) : text[i] \in UpperCase

-----------------------------------------------------------------------------
(* C1 *)

\* C1 as stated: every file name that contains "marksheet", in any letter
\* case and anywhere in the name, is classified as documentType marksheet
\* by both classifiers.
C1_MarksheetAnywhere ==
    ContainsWord(filename, <<"m","a","r","k","s","h","e","e","t">>) =>
        /\ TsDone => tsAnalysis.documentType = "marksheet"
        /\ PyDone => pyAnalysis.document_type = "marksheet"

\* C1 amended: analyzeFilename classifies every file name that contains
\* "marksheet" (any letter case, anywhere) as marksheet; the Python analyser
\* does so when the word occurs in the stem, before the last '.'.
C1_MarksheetInStem ==
    /\ TsDone /\ ContainsWord(filename, <<"m","a","r","k","s","h","e","e","t">>)
          => tsAnalysis.documentType = "marksheet"
    /\ PyDone /\ ContainsWord(StemOf(filename), <<"m","a","r","k","s","h","e","e","t">>)
          => pyAnalysis.document_type = "marksheet"

\* a mixed-case name with "marksheet" inside its stem, not at its start,
\* classified by both
C1_Witness ==
    /\ TsDone /\ PyDone
    /\ ContainsWord(StemOf(filename), <<"m","a","r","k","s","h","e","e","t">>)
    /\ ~ContainsWord(SubSeq(filename, 1, 9), <<"m","a","r","k","s","h","e","e","t">>)
    /\ HasUpperCase(filename)
    /\ tsAnalysis.documentType = "marksheet"
    /\ pyAnalysis.document_type = "marksheet"

-----------------------------------------------------------------------------
(* C2 *)

NamesTenth(text) == ContainsWord(text, <<"1","0","t","h">>) \/ ContainsWord(text, <<"t","e","n","t","h">>)

\* C2 as stated: every file name that contains "10th" or "tenth" gets
\* educationLevel 10th from both classifiers, whatever other level terms it
\* contains.
C2_TenthAnywhere ==
    NamesTenth(filename) =>
        /\ TsDone => tsAnalysis.educationLevel = "10th"
        /\ PyDone => pyAnalysis.education_level = "10th"

\* C2 amended: analyzeFilename gives educationLevel 10th to every file name
\* that contains "10th" or "tenth"; the Python analyser does so when the
\* term occurs in the stem, before the last '.'.
C2_TenthInStem ==
    /\ TsDone /\ NamesTenth(filename) => tsAnalysis.educationLevel = "10th"
    /\ PyDone /\ NamesTenth(StemOf(filename))
          => pyAnalysis.education_level = "10th"

\* a name whose stem holds a 12th term before the 10th term
C2_Witness ==
    /\ TsDone /\ PyDone
    /\ \E i \in 1..Len(StemOf(filename)) :
          /\ ContainsWord(SubSeq(StemOf(filename), 1, i), <<"1","2","t","h">>)
          /\ NamesTenth(SubSeq(StemOf(filename), i + 1, Len(StemOf(filename))))
    /\ tsAnalysis.educationLevel = "10th"
    /\ pyAnalysis.education_level = "10th"

-----------------------------------------------------------------------------
(* C3 *)

\* C3 as stated: "12th_marksheet.pdf" is renamed "12thMarksheet.pdf" and its
\* confidence is the base value plus the document-type increment plus the
\* education-level increment, in both classifiers.
C3_BaseAndBothIncrements ==
    filename = <<"1","2","t","h","_","m","a","r","k","s","h","e","e","t",".","p","d","f">> =>
        /\ TsDone =>
              /\ tsAnalysis.suggestedName = <<"1","2","t","h","M","a","r","k","s","h","e","e","t",".","p","d","f">>
              /\ tsAnalysis.confidence =
                    TsBaseConfidence + TsTypeIncrement + TsLevelIncrement
        /\ PyDone =>
              /\ pyAnalysis.suggested_name = <<"1","2","t","h","M","a","r","k","s","h","e","e","t",".","p","d","f">>
              /\ pyAnalysis.confidence = 0 + PyTypeIncrement + PyLevelIncrement

\* C3 amended: "12th_marksheet.pdf" is renamed "12thMarksheet.pdf" by both
\* classifiers; analyzeFilename scores it base + both increments, the Python
\* analyser base + both increments + the multi-match bonus; both are 1.0.
C3_TwelfthMarksheet ==
    filename = <<"1","2","t","h","_","m","a","r","k","s","h","e","e","t",".","p","d","f">> =>
        /\ TsDone =>
              /\ tsAnalysis.suggestedName = <<"1","2","t","h","M","a","r","k","s","h","e","e","t",".","p","d","f">>
              /\ tsAnalysis.confidence =
                    TsBaseConfidence + TsTypeIncrement + TsLevelIncrement
              /\ tsAnalysis.confidence = One
        /\ PyDone =>
              /\ pyAnalysis.suggested_name = <<"1","2","t","h","M","a","r","k","s","h","e","e","t",".","p","d","f">>
              /\ pyAnalysis.confidence =
                    0 + PyTypeIncrement + PyLevelIncrement + PyMatchBonus
              /\ pyAnalysis.confidence = One

C3_Witness ==
    /\ filename = <<"1","2","t","h","_","m","a","r","k","s","h","e","e","t",".","p","d","f">>
    /\ TsDone /\ PyDone
    /\ tsAnalysis.documentType = "marksheet"
    /\ pyAnalysis.education_level = "12th"

-----------------------------------------------------------------------------
(* C4 *)

\* C4: the empty file name is classified unknown / unknown, scores the base
\* confidence with no increment, and is renamed "Document".
C4_EmptyName ==
    filename = <<>> =>
        /\ TsDone =>
              /\ tsAnalysis.documentType = "unknown"
              /\ tsAnalysis.educationLevel = "unknown"
              /\ tsAnalysis.confidence = TsBaseConfidence
              /\ tsAnalysis.suggestedName = <<"D","o","c","u","m","e","n","t">>
        /\ PyDone =>
              /\ pyAnalysis.document_type = "unknown"
              /\ pyAnalysis.education_level = "unknown"
              /\ pyAnalysis.confidence = 0
              /\ pyAnalysis.suggested_name = <<"D","o","c","u","m","e","n","t">>

C4_Witness == filename = <<>> /\ TsDone /\ PyDone

-----------------------------------------------------------------------------
(* C5 *)

DeclaredTypeOrder ==
    <<"marksheet", "certificate", "photo", "signature", "identity", "category">>

DeclaredLevelOrder == <<"10th", "12th", "graduation", "post_graduation">>

\* some pattern of the category with this label is found in the text
CategoryMatches(table, label, text) ==
    \E n \in 1..Len(table) :
        /\ table[n].type = label
        /\ \E p \in 1..Len(table[n].patterns) : test(table[n].patterns[p], text)

\* the first label of the order whose category matches, "unknown" if none
FirstInOrder(order, table, text) ==
    IF \E k \in 1..Len(order) : CategoryMatches(table, order[k], text)
    THEN order[CHOOSE k \in 1..Len(order) :
                  /\ CategoryMatches(table, order[k], text)
                  /\ \A j \in 1..(k - 1) : ~CategoryMatches(table, order[j], text)]
    ELSE "unknown"

\* the number of categories of the table that match the text
MatchingCategories(order, table, text) ==
    Cardinality({k \in 1..Len(order) : CategoryMatches(table, order[k], text)})

\* C5: the result is the first category, in declaration order, that has a
\* pattern matching the text the classifier tests (the lower-cased name in
\* analyzeFilename, the lower-cased stem in the Python analyser); a later
\* category is returned only if no earlier one matches.
C5_FirstCategoryWins ==
    /\ TsDone =>
          /\ tsAnalysis.documentType =
                FirstInOrder(DeclaredTypeOrder, documentPatterns, toLowerCase(filename))
          /\ tsAnalysis.educationLevel =
                FirstInOrder(DeclaredLevelOrder, classPatterns, toLowerCase(filename))
    /\ PyDone =>
          /\ pyAnalysis.document_type =
                FirstInOrder(DeclaredTypeOrder, document_patterns,
                             StemOf(toLowerCase(filename)))
          /\ pyAnalysis.education_level =
                FirstInOrder(DeclaredLevelOrder, class_patterns,
                             StemOf(toLowerCase(filename)))

\* a stem that matches two document categories and two levels, the later
\* ones written first
C5_Witness ==
    /\ TsDone /\ PyDone
    /\ MatchingCategories(DeclaredTypeOrder, documentPatterns,
                          StemOf(toLowerCase(filename))) > 1
    /\ MatchingCategories(DeclaredLevelOrder, classPatterns,
                          StemOf(toLowerCase(filename))) > 1
    /\ ContainsWord(SubSeq(filename, 1, 5), <<"p","h","o","t","o">>)
    /\ tsAnalysis.documentType = "marksheet"
    /\ pyAnalysis.document_type = "marksheet"

-----------------------------------------------------------------------------
(* C6 *)

ProbeExtensions == { <<"p","d","f">>, <<"J","P","G">> }

\* the name with the same stem and the extension e
WithExtension(name, e) == StemOf(name) \o <<".">> \o e

\* C6 as stated: the extension never influences the classification: a name
\* and any name with the same stem and another extension get the same
\* documentType and educationLevel.
C6_ExtensionIgnored ==
    HasDot(filename) =>
        \A e \in ProbeExtensions :
            e # ExtensionOf(filename) =>
                /\ TsDone =>
                      LET other == analyzeFilename(WithExtension(filename, e))
                      IN  /\ other.documentType = tsAnalysis.documentType
                          /\ other.educationLevel = tsAnalysis.educationLevel
                /\ PyDone =>
                      LET other == analyze_filename(WithExtension(filename, e))
                      IN  /\ other.document_type = pyAnalysis.document_type
                          /\ other.education_level = pyAnalysis.education_level

-----------------------------------------------------------------------------
(* C7 *)

LevelLabel(level) ==
    CASE level = "10th"            -> <<"1","0","t","h">>
      [] level = "12th"            -> <<"1","2","t","h">>
      [] level = "graduation"      -> <<"G","r","a","d","u","a","t","i","o","n">>
      [] level = "post_graduation" -> <<"P","o","s","t","G","r","a","d","u","a","t","i","o","n">>
      [] OTHER                     -> <<>>

TypeLabel(type) ==
    CASE type = "marksheet"   -> <<"M","a","r","k","s","h","e","e","t">>
      [] type = "certificate" -> <<"C","e","r","t","i","f","i","c","a","t","e">>
      [] type = "photo"       -> <<"P","h","o","t","o">>
      [] type = "signature"   -> <<"S","i","g","n","a","t","u","r","e">>
      [] type = "identity"    -> <<"I","d","e","n","t","i","t","y","P","r","o","o","f">>
      [] type = "category"    -> <<"C","a","t","e","g","o","r","y","C","e","r","t","i","f","i","c","a","t","e">>
      [] OTHER                -> <<>>

ExpectedName(level, type, name) ==
    (IF level = "unknown" /\ type = "unknown"
     THEN <<"D","o","c","u","m","e","n","t">>
     ELSE LevelLabel(level) \o TypeLabel(type))
    \o (IF ExtensionOf(name) # <<>> THEN <<".">> \o ExtensionOf(name) ELSE <<>>)

\* C7: the suggested name is the label of the level (if known) followed by
\* the label of the document type (if known), or "Document" when both are
\* unknown, followed by "." and the extension in its original letter case
\* when the name has one.
C7_SuggestedName ==
    /\ TsDone =>
          tsAnalysis.suggestedName =
              ExpectedName(tsAnalysis.educationLevel, tsAnalysis.documentType, filename)
    /\ PyDone =>
          pyAnalysis.suggested_name =
              ExpectedName(pyAnalysis.education_level, pyAnalysis.document_type, filename)

\* level and type both known, the extension written in capitals
C7_Witness ==
    /\ TsDone /\ PyDone
    /\ HasUpperCase(ExtensionOf(filename))
    /\ tsAnalysis.educationLevel = "10th"
    /\ tsAnalysis.documentType = "photo"
    /\ pyAnalysis.education_level = "10th"
    /\ pyAnalysis.document_type = "photo"

-----------------------------------------------------------------------------
(* C8 *)

Letters == UpperCase \cup { LowerOf[c] : c \in UpperCase }

\* a leading '.' followed by letters
ExtensionOnly(name) ==
    /\ Len(name) > 1
    /\ name[1] = "."
    /\ \A i \in 2..Len(name) : name[i] \in Letters

\* C8 as stated: a name without '.' gets no suffix; a name that is only an
\* extension is classified unknown / unknown and renamed "Document" plus
\* that extension.
C8_ExtensionEdgeCases ==
    /\ ~HasDot(filename) =>
          /\ TsDone => ~HasDot(tsAnalysis.suggestedName)
          /\ PyDone => ~HasDot(pyAnalysis.suggested_name)
    /\ ExtensionOnly(filename) =>
          /\ TsDone =>
                /\ tsAnalysis.documentType = "unknown"
                /\ tsAnalysis.educationLevel = "unknown"
                /\ tsAnalysis.suggestedName = <<"D","o","c","u","m","e","n","t">> \o filename
          /\ PyDone =>
                /\ pyAnalysis.document_type = "unknown"
                /\ pyAnalysis.education_level = "unknown"
                /\ pyAnalysis.suggested_name = <<"D","o","c","u","m","e","n","t">> \o filename

-----------------------------------------------------------------------------
(* C9 *)

\* C9: the confidence lies in [0, 1] for every file name.
C9_ConfidenceInUnitInterval ==
    /\ TsDone => 0 <= tsAnalysis.confidence /\ tsAnalysis.confidence <= One
    /\ PyDone => 0 <= pyAnalysis.confidence /\ pyAnalysis.confidence <= One

\* a long name in which many patterns are found: both classifiers reach 1.0
C9_Witness ==
    /\ TsDone /\ PyDone
    /\ Len(filename) >= 18
    /\ total_matches(StemOf(toLowerCase(filename))) >= 4
    /\ tsAnalysis.confidence = One
    /\ pyAnalysis.confidence = One

-----------------------------------------------------------------------------
(* C10 *)

\* names the analysed name is compared with
Probes ==
    { <<"p","h","o","t","o",".","j","p","g">>, <<"s","i","g","n","a","t","u","r","e",".","p","n","g">>, <<"1","0","t","h",".","p","d","f">>, <<"1","0","t","h","_","1","2","t","h",".","p","d","f">>,
      <<"f","i","l","e",".","p","d","f">>, <<>> }

TsView(r) == [type |-> r.documentType, level |-> r.educationLevel,
              confidence |-> r.confidence]

PyView(r) == [type |-> r.document_type, level |-> r.education_level,
              confidence |-> r.confidence]

\* what the two classifiers return for the probes
ProbeTs == [g \in Probes |-> TsView(analyzeFilename(g))]

ProbePy == [g \in Probes |-> PyView(analyze_filename(g))]

OnlyType(v)  == v.type # "unknown" /\ v.level = "unknown"
OnlyLevel(v) == v.type = "unknown" /\ v.level # "unknown"
Neither(v)   == v.type = "unknown" /\ v.level = "unknown"

\* base + A if the type is known + B if the level is known + bonus, clamped
Scored(v, base, A, B, bonus) ==
    v.confidence =
        Min(base + (IF v.type # "unknown" THEN A ELSE 0)
                 + (IF v.level # "unknown" THEN B ELSE 0) + bonus, One)

ConfidenceFormula ==
    /\ TsTypeIncrement > TsLevelIncrement /\ TsLevelIncrement > 0
    /\ PyTypeIncrement > PyLevelIncrement /\ PyLevelIncrement > 0
    /\ TsDone => Scored(TsView(tsAnalysis), TsBaseConfidence, TsTypeIncrement,
                        TsLevelIncrement, 0)
    /\ PyDone => \E bonus \in {0, PyMatchBonus} :
                    Scored(PyView(pyAnalysis), 0, PyTypeIncrement,
                           PyLevelIncrement, bonus)

\* only a type recognised > only a level recognised > neither
StrictlyRanked(a, b) ==
    /\ OnlyType(a) /\ OnlyLevel(b) => a.confidence > b.confidence
    /\ OnlyLevel(a) /\ Neither(b) => a.confidence > b.confidence

\* as StrictlyRanked, but a type-only score without the bonus may equal a
\* level-only score with it
RankedUpToBonus(a, b) ==
    /\ OnlyType(a) /\ OnlyLevel(b) =>
          \/ a.confidence > b.confidence
          \/ /\ a.confidence = PyTypeIncrement
             /\ b.confidence = PyLevelIncrement + PyMatchBonus
             /\ a.confidence = b.confidence
    /\ OnlyLevel(a) /\ Neither(b) => a.confidence > b.confidence

\* C10 as stated: confidence is base + A (type known) + B (level known) plus
\* at most the bonus, clamped to 1, with A > B > 0, and therefore a name with
\* only a type recognised scores strictly higher than one with only a level
\* recognised, which scores strictly higher than one with neither.
C10_StrictOrder ==
    /\ ConfidenceFormula
    /\ TsDone => \A g \in Probes :
          /\ StrictlyRanked(TsView(tsAnalysis), ProbeTs[g])
          /\ StrictlyRanked(ProbeTs[g], TsView(tsAnalysis))
    /\ PyDone => \A g \in Probes :
          /\ StrictlyRanked(PyView(pyAnalysis), ProbePy[g])
          /\ StrictlyRanked(ProbePy[g], PyView(pyAnalysis))

\* C10 amended: the same formula; in analyzeFilename, which has no bonus,
\* type-only > level-only > neither strictly; in the Python analyser
\* level-only > neither strictly and type-only >= level-only, with equality
\* exactly when the type-only name has no bonus and the level-only name has
\* it (0.5 = 0.3 + 0.2).
C10_OrderUpToBonus ==
    /\ ConfidenceFormula
    /\ TsDone => \A g \in Probes :
          /\ StrictlyRanked(TsView(tsAnalysis), ProbeTs[g])
          /\ StrictlyRanked(ProbeTs[g], TsView(tsAnalysis))
    /\ PyDone => \A g \in Probes :
          /\ RankedUpToBonus(PyView(pyAnalysis), ProbePy[g])
          /\ RankedUpToBonus(ProbePy[g], PyView(pyAnalysis))

\* a type-only name without bonus met by a level-only probe with bonus, and
\* by a probe with neither
C10_Witness ==
    /\ TsDone /\ PyDone
    /\ OnlyType(TsView(tsAnalysis)) /\ OnlyType(PyView(pyAnalysis))
    /\ \E g \in Probes :
          /\ OnlyLevel(ProbePy[g])
          /\ OnlyLevel(ProbeTs[g])
          /\ ProbePy[g].confidence = pyAnalysis.confidence
          /\ ProbeTs[g].confidence < tsAnalysis.confidence
    /\ \E g \in Probes : Neither(ProbePy[g])

-----------------------------------------------------------------------------
(* C11 *)

\* the two names fall into the same (documentType, educationLevel) pair
SamePair(a, b) == a.type = b.type /\ a.level = b.level

\* more than one pattern of the tables is found in the stem of the name
MultiMatch(name) == total_matches(name_without_ext(name)) > 1

ProbeMultiMatch == [g \in Probes |-> MultiMatch(g)]

\* C11 as stated: confidence is a function of the matched categories only:
\* two file names classified to the same (documentType, educationLevel)
\* pair receive the same confidence.
C11_SamePairSameConfidence ==
    /\ TsDone => \A g \in Probes :
          SamePair(TsView(tsAnalysis), ProbeTs[g])
             => tsAnalysis.confidence = ProbeTs[g].confidence
    /\ PyDone => \A g \in Probes :
          SamePair(PyView(pyAnalysis), ProbePy[g])
             => pyAnalysis.confidence = ProbePy[g].confidence

\* C11 amended: in analyzeFilename two names of the same pair receive the
\* same confidence; in the Python analyser they do when, in addition, both
\* or neither of them match more than one pattern (the 0.2 bonus).
C11_SamePairAndBonus ==
    /\ TsDone => \A g \in Probes :
          SamePair(TsView(tsAnalysis), ProbeTs[g])
             => tsAnalysis.confidence = ProbeTs[g].confidence
    /\ PyDone => \A g \in Probes :
          /\ SamePair(PyView(pyAnalysis), ProbePy[g])
          /\ MultiMatch(filename) = ProbeMultiMatch[g]
          => pyAnalysis.confidence = ProbePy[g].confidence

\* a name analysed by both classifiers and a different probe of the same
\* pair, both matching more than one pattern
C11_Witness ==
    /\ TsDone /\ PyDone
    /\ \E g \in Probes :
          /\ g # filename
          /\ SamePair(TsView(tsAnalysis), ProbeTs[g])
          /\ SamePair(PyView(pyAnalysis), ProbePy[g])
          /\ MultiMatch(filename) /\ ProbeMultiMatch[g]
          /\ pyAnalysis.confidence = ProbePy[g].confidence
          /\ tsAnalysis.confidence = ProbeTs[g].confidence

-----------------------------------------------------------------------------
(* C12 *)

\* no pattern of either classifier matches the name
MatchesNothing(name) ==
    /\ analyzeFilename(name).documentType = UNKNOWN
    /\ analyzeFilename(name).educationLevel = UNKNOWN
    /\ analyze_filename(name).document_type = UNKNOWN
    /\ analyze_filename(name).education_level = UNKNOWN

\* the wrapper of the Python analyser reported an error for the name
PythonError(name) == "error" \in DOMAIN pythonModule_analyzeDocument(name)

\* C12: classification has no error outcome: analyzeDocument of an
\* initialised service is fulfilled for every file name, the evaluation of
\* the Python analyser reports no error, and a name that matches nothing is
\* answered with the defaults "unknown" and "Document" (plus the extension).
\* (Stated for wasmService.ts and for part_005, which hand on the answer of
\* their classifier; part_004 always answers with its mock analysis.)
C12_NoErrorOutcome ==
    (call.op = "analyzeDocument" /\ initialized /\ build # Part004) =>
        /\ call.result.settled = "fulfilled"
        /\ build = Part005 => ~PythonError(call.file.name)
        /\ MatchesNothing(call.file.name) =>
              /\ call.result.value.documentType = "unknown"
              /\ call.result.value.suggestedName =
                    ExpectedName("unknown", "unknown", call.file.name)

-----------------------------------------------------------------------------
(* C13 *)

\* a call of handleConvert has come to its end
RunEnded == run.pc = "idle" /\ "result" \in DOMAIN run

\* the conversion of the file fails: its bytes cannot be read
FailsToConvert(file) == ~file.readable

\* C13: a conversion failure is recorded per file: after a run in which the
\* conversion of a file failed, the items of the files that failed have
\* status 'error' and a message, and every other item of the run has status
\* 'success' and a download URL.
C13_FailurePerFile ==
    (RunEnded /\ \E k \in 1..Len(run.files) : FailsToConvert(run.files[k].file)) =>
        \A k \in 1..Len(run.files) :
            IF FailsToConvert(run.files[k].file)
            THEN /\ files[k].status = "error"
                 /\ files[k].error # undefined
            ELSE /\ files[k].status = "success"
                 /\ files[k].convertedUrl # undefined

-----------------------------------------------------------------------------
(* C14 *)

\* the analysis of the file fails: the Python analyser cannot be evaluated
\* on its name, or analyzeDocument rejects
AnalysisFailed(file) ==
    \/ serviceAnalyzeDocument(build, initialized, file).settled = "rejected"
    \/ build # Live /\ PythonError(file.name)

\* the run has the analysis of its k-th file behind it
Analysed(k) ==
    \/ run.pc = "converting"
    \/ run.pc = "analyzing" /\ k < run.index

-----------------------------------------------------------------------------
(* C15 *)

\* convertDocuments answered with success
ConversionSucceeded(outcome) ==
    /\ outcome.settled = "fulfilled"
    /\ outcome.value.success

\* the blob behind a download URL
BlobOf(url) == url[2]

\* C15: conversion is a byte-identical passthrough: after a successful
\* conversion there is one converted file per input file, and the blob
\* behind its download URL holds exactly the bytes of that input file.
C15_ByteIdentical ==
    (call.op = "convertDocuments" /\ ConversionSucceeded(call.result)) =>
        /\ Len(call.result.value.files) = Len(call.files)
        /\ \A i \in 1..Len(call.files) :
              BlobOf(call.result.value.files[i].downloadUrl).bytes
                  = call.files[i].bytes

-----------------------------------------------------------------------------
(* C16 *)

\* the download URL is that of a blob made of the file: of its bytes, or of
\* what the canvas made of them
ProducedFrom(url, file) ==
    /\ url # undefined
    /\ \/ BlobOf(url).bytes = file.bytes
       \/ BlobOf(url).bytes = <<"canvas">> \o file.bytes

\* C16: every file item with status 'success' has a defined download URL,
\* produced from the item's own file, however the selection of files is
\* interleaved with the run.
C16_SuccessHasOwnUrl ==
    \A k \in 1..Len(files) :
        files[k].status = "success" =>
            ProducedFrom(files[k].convertedUrl, files[k].file)

-----------------------------------------------------------------------------
(* C17 *)

\* the maximum size configured for the primary target format, 5 MB when
\* none is configured
ConfiguredLimit(targetFormats, maxSizes) ==
    IF Len(targetFormats) >= 1
       /\ targetFormats[1] \in DOMAIN maxSizes
       /\ maxSizes[targetFormats[1]] > 0
    THEN maxSizes[targetFormats[1]]
    ELSE 5 * 1024 * 1024

\* C17: converted output satisfies the size limit of the exam: every file
\* a successful conversion returns is not larger than the maximum size
\* configured for the primary target format (5 MB when none is configured).
\* (Stated for convertDocuments of wasmService.ts.)
C17_WithinSizeLimit ==
    (build = Live /\ call.op = "convertDocuments"
                  /\ ConversionSucceeded(call.result)) =>
        \A i \in 1..Len(call.result.value.files) :
            BlobOf(call.result.value.files[i].downloadUrl).size
                <= ConfiguredLimit(call.targetFormats, call.maxSizes)

-----------------------------------------------------------------------------
(* C18 *)

\* a step of handleConvert after the click: the continuation of one of its
\* awaits
HandleConvertStep == AnalysisSettled \/ ConversionSettled

\* C18: the list of file items has a single writer: while a run is in
\* progress (isConverting), every step that adds, removes or changes an
\* item of the list is a step of handleConvert.
C18_SingleWriter ==
    [][(isConverting /\ files' # files) => HandleConvertStep]_vars

-----------------------------------------------------------------------------
(* C19 *)

\* C19: classifying a suggested name again need not reproduce the first
\* result: there is a file name, "marksheet.pdf", whose suggested name gets
\* a different suggested name when it is classified again (by either
\* classifier).
C19_NotIdempotent ==
    filename = <<"m","a","r","k","s","h","e","e","t",".","p","d","f">> =>
        /\ TsDone => analyzeFilename(tsAnalysis.suggestedName).suggestedName
                         # tsAnalysis.suggestedName
        /\ PyDone => analyze_filename(pyAnalysis.suggested_name).suggested_name
                         # pyAnalysis.suggested_name

\* "marksheet.pdf" has been classified: its suggested name
\* "PostGraduationMarksheet.pdf" is classified as "GraduationMarksheet.pdf"
C19_Witness ==
    /\ TsDone /\ PyDone
    /\ filename = <<"m","a","r","k","s","h","e","e","t",".","p","d","f">>
    /\ tsAnalysis.suggestedName = <<"P","o","s","t","G","r","a","d","u","a","t","i","o","n","M","a","r","k","s","h","e","e","t",".","p","d","f">>
    /\ pyAnalysis.suggested_name = <<"P","o","s","t","G","r","a","d","u","a","t","i","o","n","M","a","r","k","s","h","e","e","t",".","p","d","f">>
    /\ analyzeFilename(tsAnalysis.suggestedName).suggestedName
          = <<"G","r","a","d","u","a","t","i","o","n","M","a","r","k","s","h","e","e","t",".","p","d","f">>
    /\ analyze_filename(pyAnalysis.suggested_name).suggested_name
          = <<"G","r","a","d","u","a","t","i","o","n","M","a","r","k","s","h","e","e","t",".","p","d","f">>

-----------------------------------------------------------------------------
(* C20 *)

\* the input name up to its last '.', or the whole name when that prefix is
\* empty or the name has no '.'
ExpectedBase(name) ==
    IF HasDot(name) /\ LastDot(name) > 1 THEN StemOf(name) ELSE name

\* the MIME type mapped from a format, in any letter case
ExpectedMime(format) ==
    CASE toUpperCase(format) = <<"P","D","F">>  -> <<"a","p","p","l","i","c","a","t","i","o","n","/","p","d","f">>
      [] toUpperCase(format) = <<"J","P","E","G">> -> <<"i","m","a","g","e","/","j","p","e","g">>
      [] toUpperCase(format) = <<"J","P","G">>  -> <<"i","m","a","g","e","/","j","p","e","g">>
      [] toUpperCase(format) = <<"P","N","G">>  -> <<"i","m","a","g","e","/","p","n","g">>
      [] toUpperCase(format) = <<"D","O","C","X">> ->
            <<"a","p","p","l","i","c","a","t","i","o","n","/","v","n","d",".","o","p","e","n","x","m","l","f","o","r","m","a","t","s","-","o","f","f","i","c","e","d","o","c","u","m","e","n","t",".","w","o","r","d","p","r","o","c","e","s","s","i","n","g","m","l",".","d","o","c","u","m","e","n","t">>
      [] OTHER -> <<"a","p","p","l","i","c","a","t","i","o","n","/","o","c","t","e","t","-","s","t","r","e","a","m">>

\* C20: for every file converted by convertDocuments of wasmService.ts the
\* synthesized name is base + "_" + the exam type in upper case + "." + the
\* primary target format in lower case, base being the input name up to its
\* last '.', or the whole name when that prefix is empty or there is no '.';
\* the MIME type of the blob is the one mapped from the primary target
\* format, application/octet-stream when it is not mapped.
C20_SynthesizedNameAndType ==
    (build = Live /\ call.op = "convertDocuments"
                  /\ ConversionSucceeded(call.result)) =>
        /\ Len(call.result.value.files) = Len(call.files)
        /\ \A i \in 1..Len(call.files) :
              LET converted == call.result.value.files[i]
                  format    == call.targetFormats[1]
              IN  /\ converted.convertedName =
                        ExpectedBase(call.files[i].name) \o <<"_">>
                            \o toUpperCase(call.examType) \o <<".">>
                            \o toLowerCase(format)
                  /\ BlobOf(converted.downloadUrl).type = ExpectedMime(format)

\* a name with two dots and a name that is only an extension, converted to
\* a format written in lower case for an exam type written in mixed case
C20_Witness ==
    /\ build = Live
    /\ call.op = "convertDocuments"
    /\ ConversionSucceeded(call.result)
    /\ call.examType = <<"J","e","e">>
    /\ call.targetFormats = << <<"j","p","g">> >>
    /\ Len(call.files) = 2
    /\ call.files[1].name = <<"m","y",".","p","h","o","t","o",".","j","p","g">>
    /\ call.files[2].name = <<".","p","d","f">>
    /\ call.result.value.files[1].convertedName = <<"m","y",".","p","h","o","t","o","_","J","E","E",".","j","p","g">>
    /\ call.result.value.files[2].convertedName = <<".","p","d","f","_","J","E","E",".","j","p","g">>
    /\ BlobOf(call.result.value.files[1].downloadUrl).type = <<"i","m","a","g","e","/","j","p","e","g">>

-----------------------------------------------------------------------------
(* C21 *)

\* the positions of the items with the status
WithStatus(status) == { k \in 1..Len(files) : files[k].status = status }

\* C21: files are processed one at a time in list order: at most one item
\* is 'analyzing' at any moment; while the analysis loop is at the file of
\* position index, the files before it have been analysed ('converting'),
\* that file is 'analyzing' and the files after it have not been started;
\* and a conversion answers with the files in the order of the list.
C21_OneAtATimeInOrder ==
    /\ Cardinality(WithStatus("analyzing")) <= 1
    /\ run.pc = "analyzing" =>
          \A k \in 1..Len(run.files) :
              /\ k < run.index => files[k].status = "converting"
              /\ k = run.index => files[k].status = "analyzing"
              /\ k > run.index => files[k].status \notin {"analyzing", "converting"}
    /\ (RunEnded /\ ConversionSucceeded(run.result)) =>
          /\ Len(run.result.value.files) = Len(run.filesToConvert)
          /\ \A i \in 1..Len(run.filesToConvert) :
                run.result.value.files[i].originalName = run.filesToConvert[i].name

\* the analysis of the first of two files is over and the second one is
\* being analysed
C21_Witness ==
    /\ run.pc = "analyzing"
    /\ Len(run.files) = 2
    /\ run.index = 2
    /\ files[1].status = "converting"
    /\ files[2].status = "analyzing"

-----------------------------------------------------------------------------
(* C22 *)

\* the run is over: isConverting is false again and every item that was in
\* the list when the run started is 'success' or 'error'
RunOver ==
    /\ RunEnded
    /\ ~isConverting
    /\ \A k \in 1..Len(run.files) : files[k].status \in {"success", "error"}

\* C22: every conversion run terminates: a run that has started leads to a
\* state where it is over, isConverting false and every item of the run
\* 'success' or 'error', whether the conversion succeeded, answered with a
\* failure or threw; and whenever a run has ended that is how it ended.
C22_RunTerminates ==
    /\ isConverting ~> RunOver
    /\ [](RunEnded => RunOver)

\* a run of two files has ended by a conversion that threw
C22_Witness ==
    /\ RunOver
    /\ Len(run.files) = 2
    /\ run.result.settled = "rejected"
    /\ \A k \in 1..Len(run.files) : files[k].status = "error"

-----------------------------------------------------------------------------
(* C23 *)

\* analyzeDocument or convertDocuments has been called and has answered
ServiceCalled == call.op \in {"analyzeDocument", "convertDocuments"}

\* the call was rejected because the service was not initialised
FailedNotInitialized ==
    /\ call.result.settled = "rejected"
    /\ includesText(call.result.reason, <<"n","o","t"," ","i","n","i","t","i","a","l","i","z","e","d">>)

\* the statement as written: every call made before initialize() has
\* completed fails with a 'not initialized' error
C23_UninitializedCallsFail ==
    (ServiceCalled /\ ~initialized) => FailedNotInitialized

\* C23: before initialize() has completed analyzeDocument fails with a 'not
\* initialized' error in every revision and convertDocuments does in
\* wasmService.ts and part_004, while convertDocuments of part_005 answers
\* with its fallback conversion; once initialised no call fails for that
\* reason, the flag never reverts, and a further initialize() resolves
\* without changing anything.
C23_InitializedBeforeUse ==
    /\ [](/\ (ServiceCalled /\ ~initialized) =>
                IF build = Part005 /\ call.op = "convertDocuments"
                THEN call.result = fallbackConversion(call.files, call.targetFormats)
                ELSE FailedNotInitialized
          /\ (ServiceCalled /\ initialized) => ~FailedNotInitialized)
    /\ [][initialized => initialized']_vars
    /\ [][(Initialize /\ initialized) =>
             /\ call'.result = Fulfilled(undefined)
             /\ UNCHANGED <<build, initialized>>]_vars

\* convertDocuments of part_005 called before initialize() has answered with
\* converted files
C23_Witness ==
    /\ build = Part005
    /\ ~initialized
    /\ call.op = "convertDocuments"
    /\ Len(call.files) > 0
    /\ call.result.settled = "fulfilled"
    /\ call.result.value.success

-----------------------------------------------------------------------------
(* C24 *)

\* a handleConvert is past its early return and has not reached its end
RunInProgress == run.pc \in {"analyzing", "converting"}

\* C24: at most one conversion run is in progress at any time: while a run
\* is in progress the Convert button is disabled, and a step that starts a
\* run (handleConvert enters its loop at the first item) is only taken when
\* no run is in progress.
C24_OneRunAtATime ==
    /\ [](RunInProgress => (isConverting /\ ConvertButtonDisabled))
    /\ [][(HandleConvert \/ (run' # run /\ run'.pc = "analyzing" /\ run'.index = 1))
             => ~RunInProgress]_vars

\* a second run has started after an earlier one ended: its loop is at the
\* first item and another item still shows how the earlier run ended
C24_Witness ==
    /\ run.pc = "analyzing"
    /\ run.index = 1
    /\ \E k \in 2..Len(files) : files[k].status \in {"success", "error"}

-----------------------------------------------------------------------------
(* C25 *)

\* the status and the progress of every item agree
StatusProgressAgree ==
    \A k \in 1..Len(files) :
        /\ files[k].status = "analyzing"  => files[k].progress = 20
        /\ files[k].status = "converting" => files[k].progress = 50
        /\ files[k].status = "success"    => files[k].progress = 100
        /\ files[k].progress = 100        => files[k].status = "success"

\* one move of the order pending or terminal -> analyzing -> converting ->
\* success or error
LegalMove(from, to) ==
    \/ from \in {"pending", "success", "error"} /\ to = "analyzing"
    \/ from = "analyzing" /\ to = "converting"
    \/ from = "converting" /\ to \in {"success", "error"}

\* every item that changes its status in a step makes a legal move
StatusInOrder ==
    \A k \in 1..Len(files) :
        \/ files'[k].status = files[k].status
        \/ LegalMove(files[k].status, files'[k].status)

\* C25: in every reachable state the status and the progress of each item
\* agree (analyzing 20, converting 50, success 100, and 100 only with
\* success), and every change of status is a move of the order pending or
\* terminal -> analyzing -> converting -> success or error.
C25_StatusProgressOrder ==
    /\ [](StatusProgressAgree)
    /\ [][StatusInOrder]_vars

\* what does hold: the items the run was started with move in that order
RunItemsInOrder ==
    [][RunInProgress =>
          \A k \in 1..Len(run.files) :
              \/ files'[k].status = files[k].status
              \/ LegalMove(files[k].status, files'[k].status)]_vars

-----------------------------------------------------------------------------
(* C26 *)

\* C26: an item with status 'success' carries no error message and an item
\* with status 'error' carries no download URL, after any sequence of runs.
C26_OutcomeFieldsExclusive ==
    \A k \in 1..Len(files) :
        /\ files[k].status = "success" => files[k].error = undefined
        /\ files[k].status = "error"   => files[k].convertedUrl = undefined

\* the half about 'success' alone
SuccessWithoutError ==
    \A k \in 1..Len(files) :
        files[k].status = "success" => files[k].error = undefined

\* the half about 'error' alone
ErrorWithoutUrl ==
    \A k \in 1..Len(files) :
        files[k].status = "error" => files[k].convertedUrl = undefined

-----------------------------------------------------------------------------
(* C27 *)

\* the list keeps its items, in their order, with their identity
SameItems ==
    /\ Len(files') = Len(files)
    /\ \A k \in 1..Len(files) :
          /\ files'[k].id = files[k].id
          /\ files'[k].file = files[k].file
          /\ files'[k].originalName = files[k].originalName
          /\ files'[k].size = files[k].size
          /\ files'[k].type = files[k].type

\* handleConvert called in the current state returns at once
EarlyReturn ==
    handleConvert(files, wasmLoaded, isConverting, selectedExam, run) =
        [ files |-> files, isConverting |-> isConverting, run |-> run ]

\* C27: no step of handleConvert adds, removes or reorders items or changes
\* an item's id, file, originalName, size or type; and handleConvert called
\* when the list is empty or the service is not loaded changes nothing,
\* isConverting included.
C27_OnlyOutcomeFields ==
    /\ []((Len(files) = 0 \/ ~wasmLoaded) => EarlyReturn)
    /\ [][(HandleConvert \/ HandleConvertStep) => SameItems]_vars

\* a run has renamed an item and given it a download URL; its original name
\* is still the name of its file
C27_Witness ==
    /\ RunEnded
    /\ \E k \in 1..Len(files) :
          /\ files[k].status = "success"
          /\ files[k].name # files[k].originalName
          /\ files[k].originalName = files[k].file.name
          /\ files[k].convertedUrl # undefined

-----------------------------------------------------------------------------
(* C28 *)

\* the names of the statement, each with the name it is said to get
TypeOnlyNames ==
    { <<<<"m","a","r","k","s","h","e","e","t",".","p","d","f">>, <<"M","a","r","k","s","h","e","e","t",".","p","d","f">>>>,
      <<<<"i","m","a","g","e",".","j","p","g">>, <<"P","h","o","t","o",".","j","p","g">>>>,
      <<<<"d","i","p","l","o","m","a",".","p","d","f">>, <<"C","e","r","t","i","f","i","c","a","t","e",".","p","d","f">>>> }

\* C28: a filename that names a document type and no education level gets
\* educationLevel 'unknown' and a suggested name without level prefix:
\* "marksheet.pdf" gives "Marksheet.pdf", "image.jpg" gives "Photo.jpg" and
\* "diploma.pdf" gives "Certificate.pdf", from either classifier.
C28_TypeOnlyNoLevel ==
    \A pair \in TypeOnlyNames :
        filename = pair[1] =>
            /\ TsDone => /\ tsAnalysis.educationLevel = UNKNOWN
                         /\ tsAnalysis.suggestedName = pair[2]
            /\ PyDone => /\ pyAnalysis.education_level = UNKNOWN
                         /\ pyAnalysis.suggested_name = pair[2]

-----------------------------------------------------------------------------
(* C29 *)

\* the name holds a term of the 10th or of the 12th class
NamesSchoolLevel(text) ==
    \/ NamesTenth(text)
    \/ ContainsWord(text, <<"1","2","t","h">>) \/ ContainsWord(text, <<"t","w","e","l","f","t","h">>)

\* the name holds "post graduation" or "postgraduation"
NamesPostGraduation(text) ==
    \/ ContainsWord(text, <<"p","o","s","t"," ","g","r","a","d","u","a","t","i","o","n">>)
    \/ ContainsWord(text, <<"p","o","s","t","g","r","a","d","u","a","t","i","o","n">>)

\* the name holds "caste certificate" or "category certificate"
NamesCategoryCertificate(text) ==
    \/ ContainsWord(text, <<"c","a","s","t","e"," ","c","e","r","t","i","f","i","c","a","t","e">>)
    \/ ContainsWord(text, <<"c","a","t","e","g","o","r","y"," ","c","e","r","t","i","f","i","c","a","t","e">>)

\* C29: every label of the rule tables is obtainable from the term that
\* names it: a filename with "post graduation" or "postgraduation" and no
\* 10th/12th term classifies as 'post_graduation', and a filename with
\* "caste certificate" or "category certificate" and no marksheet term
\* classifies as 'category', by either classifier.
C29_LabelsObtainable ==
    /\ (NamesPostGraduation(filename) /\ ~NamesSchoolLevel(filename)) =>
          /\ TsDone => tsAnalysis.educationLevel = "post_graduation"
          /\ PyDone => pyAnalysis.education_level = "post_graduation"
    /\ (NamesCategoryCertificate(filename)
            /\ ~ContainsWord(filename, <<"m","a","r","k","s","h","e","e","t">>)) =>
          /\ TsDone => tsAnalysis.documentType = "category"
          /\ PyDone => pyAnalysis.document_type = "category"

-----------------------------------------------------------------------------
(* C30 *)

\* analyzeDocument has answered with the analysis of the fallback
FallbackAnswered ==
    /\ call.op = "analyzeDocument"
    /\ \/ call.result = Fulfilled(mockPythonAnalysis(call.file.name))
       \/ call.result = Fulfilled(fallbackAnalysis(call.file.name))

\* the name holds the term, in any case
Mentions(text, word) == includesText(toLowerCase(text), word)

\* C30: the fallback analysis gives a suggested name with at most one level
\* prefix: a name with "marksheet" and "10" or "tenth" is renamed
\* "10thMarksheet.<ext>", one with "marksheet" and "12" or "twelfth" (and
\* no term of the 10th) "12thMarksheet.<ext>", and the confidence is within
\* [0,1].
C30_FallbackOneLevelPrefix ==
    FallbackAnswered =>
        LET name      == call.file.name
            analysis  == call.result.value
            extension == <<Dot>> \o splitPop(name)
            tenth     == Mentions(name, <<"1","0">>) \/ Mentions(name, <<"t","e","n","t","h">>)
            twelfth   == Mentions(name, <<"1","2">>) \/ Mentions(name, <<"t","w","e","l","f","t","h">>)
        IN  /\ (Mentions(name, <<"m","a","r","k","s","h","e","e","t">>) /\ tenth) =>
                  analysis.suggestedName = <<"1","0","t","h","M","a","r","k","s","h","e","e","t">> \o extension
            /\ (Mentions(name, <<"m","a","r","k","s","h","e","e","t">>) /\ ~tenth /\ twelfth) =>
                  analysis.suggestedName = <<"1","2","t","h","M","a","r","k","s","h","e","e","t">> \o extension
            /\ analysis.confidence \in 0..Hundred

=============================================================================
